---- MODULE Spec2Model ----
(***************************************************************************)
(* A model of the receipt extraction pipeline: image validation (raw and   *)
(* base64), MIME detection, prompt construction and the extraction         *)
(* service's call to the vision endpoint.                                  *)
(*                                                                         *)
(* Data representation.                                                    *)
(*  - A byte is an integer 0..255.  A byte buffer is a record              *)
(*    [head, fill] denoting the bytes of head followed by fill zero bytes, *)
(*    so that a buffer of 50 MiB is a value that can be enumerated.  Len   *)
(*    and At are exact on it.                                              *)
(*  - A character is a one-character string.  A Go string is a record      *)
(*    [head, fill, tail] denoting head, then fill times "A", then tail.    *)
(*  - A Go error of type *ImageValidationError is a record                 *)
(*    [Field, Message]; the nil error is NilError.                         *)
(***************************************************************************)
EXTENDS Integers, Sequences, FiniteSets, TLC

VARIABLES
    stage,       \* validation: which inputs exist: "bytes", "encoded", "string", ...
    imageData,   \* validation: the byte buffer under validation
    base64Data,  \* validation: the base64 / data-URI string under validation
    ret,         \* validation: the last call and what it returned
    svc,         \* extraction: the Service (config, apiKey)
    pc,          \* extraction: "idle", "inflight" (client.Do is running), "done"
    ctx,         \* extraction: ctx.Err() of the caller's context, as text ("" is nil)
    entry,       \* extraction: the entry point that was called
    req,         \* extraction: the ReceiptExtractionRequest
    sent,        \* extraction: the image URL and the prompt handed to callVisionAPI
    requests,    \* extraction: outbound requests issued by the current call
    received,    \* extraction: what came back from the endpoint
    resp,        \* extraction: the *ReceiptExtractionResponse returned
    err,         \* extraction: the Go error returned (<<>> is nil)
    cfg,         \* configuration: the last call on the Service's configuration
    record,      \* records: the record (and arguments) the last call was made on
    out,         \* records: the last call and what it returned
    handler,     \* Lambda: the invocation of a handler, from request to response
    sheet        \* Lambda: the rows of the spreadsheet

valVars == <<stage, imageData, base64Data, ret>>

extVars == <<svc, pc, ctx, entry, req, sent, requests, received, resp, err>>

cfgVars == <<cfg>>

recVars == <<record, out>>

hdlVars == <<handler, sheet>>

vars == <<stage, imageData, base64Data, ret,
          svc, pc, ctx, entry, req, sent, requests, received, resp, err,
          cfg, record, out, handler, sheet>>

(***************************************************************************)
(* Bounds of the enumeration of inputs.                                    *)
(***************************************************************************)
MaxHeadLen == 12
MaxSmallFill == 2
NearLimit == 1

(***************************************************************************)
(* Program constants.                                                      *)
(***************************************************************************)
MaxImageSizeBytes == 50 * 1024 * 1024

NilError == [Field |-> "", Message |-> ""]

ImageValidationError(field, message) == [Field |-> field, Message |-> message]

(***************************************************************************)
(* Byte buffers.                                                           *)
(***************************************************************************)
BufLen(b) == Len(b.head) + b.fill

At(b, i) == IF i < Len(b.head) THEN b.head[i + 1] ELSE 0

Bytes(s) == [head |-> s, fill |-> 0]

(***************************************************************************)
(* ValidateImageSize                                                       *)
(***************************************************************************)
\* Mutant: the limit itself is rejected.
ValidateImageSize_LimitExcluded(data) ==
    LET size == BufLen(data)
    IN  IF size = 0
          THEN ImageValidationError("image_data", "image data is empty")
          ELSE IF size >= MaxImageSizeBytes
                 THEN ImageValidationError("image_size", "image size exceeds OpenAI limit")
                 ELSE NilError

ValidateImageSize(data) ==
    LET size == BufLen(data)
    IN  IF size = 0
          THEN ImageValidationError("image_data", "image data is empty")
          ELSE IF size > MaxImageSizeBytes
                 THEN ImageValidationError("image_size", "image size exceeds OpenAI limit")
                 ELSE NilError

(***************************************************************************)
(* ValidateImageFormat                                                     *)
(***************************************************************************)
isPNG(d) == At(d, 0) = 137 /\ At(d, 1) = 80 /\ At(d, 2) = 78 /\ At(d, 3) = 71

isJPEG(d) == At(d, 0) = 255 /\ At(d, 1) = 216 /\ At(d, 2) = 255

isGIF(d) == At(d, 0) = 71 /\ At(d, 1) = 73 /\ At(d, 2) = 70

\* Mutant: any RIFF container is taken for WEBP.
isWEBP_AnyRIFF(d) ==
    /\ BufLen(d) >= 12
    /\ At(d, 0) = 82 /\ At(d, 1) = 73 /\ At(d, 2) = 70 /\ At(d, 3) = 70

isWEBP(d) ==
    /\ BufLen(d) >= 12
    /\ At(d, 0) = 82 /\ At(d, 1) = 73 /\ At(d, 2) = 70 /\ At(d, 3) = 70
    /\ At(d, 8) = 87 /\ At(d, 9) = 69 /\ At(d, 10) = 66 /\ At(d, 11) = 80

ValidateImageFormat(data) ==
    IF BufLen(data) < 4
      THEN ImageValidationError("image_format", "image data too short to determine format")
      ELSE IF ~isPNG(data) /\ ~isJPEG(data) /\ ~isGIF(data) /\ ~isWEBP(data)
             THEN ImageValidationError("image_format", "unsupported image format")
             ELSE NilError

(***************************************************************************)
(* ValidateImageForOpenAI                                                  *)
(***************************************************************************)
\* Mutant: the format is checked before the size.
ValidateImageForOpenAI_FormatFirst(data) ==
    IF ValidateImageFormat(data) # NilError
      THEN ValidateImageFormat(data)
      ELSE IF ValidateImageSize(data) # NilError
             THEN ValidateImageSize(data)
             ELSE NilError

ValidateImageForOpenAI(data) ==
    IF ValidateImageSize(data) # NilError
      THEN ValidateImageSize(data)
      ELSE IF ValidateImageFormat(data) # NilError
             THEN ValidateImageFormat(data)
             ELSE NilError

(***************************************************************************)
(* Go strings: head, then fill times "A", then tail.  Indices are 0-based  *)
(* as in Go.                                                               *)
(***************************************************************************)
Str(seq) == [head |-> seq, fill |-> 0, tail |-> <<>>]

StrLen(s) == Len(s.head) + s.fill + Len(s.tail)

CharAt(s, i) ==
    IF i < Len(s.head)
      THEN s.head[i + 1]
      ELSE IF i < Len(s.head) + s.fill
             THEN "A"
             ELSE s.tail[i - Len(s.head) - s.fill + 1]

\* s[:n], as a sequence of characters.
Prefix(s, n) == [k \in 1..n |-> CharAt(s, k - 1)]

\* s[k:]
Suffix(s, k) ==
    IF k <= Len(s.head)
      THEN [head |-> SubSeq(s.head, k + 1, Len(s.head)), fill |-> s.fill, tail |-> s.tail]
      ELSE IF k <= Len(s.head) + s.fill
             THEN [head |-> <<>>, fill |-> s.fill - (k - Len(s.head)), tail |-> s.tail]
             ELSE [head |-> <<>>, fill |-> 0,
                   tail |-> SubSeq(s.tail, k - Len(s.head) - s.fill + 1, Len(s.tail))]

\* prefix + s
Concat(prefix, s) == [head |-> prefix \o s.head, fill |-> s.fill, tail |-> s.tail]

Min(a, b) == IF a < b THEN a ELSE b

\* len(s) > 5 && s[:5] == "data:"
HasDataPrefix(s) == StrLen(s) > 5 /\ Prefix(s, 5) = <<"d", "a", "t", "a", ":">>

\* for i, ch := range s { if ch == ',' { ...; break } }: the index of the first
\* comma, or -1 when the loop ends without finding one.
FirstComma(s) ==
    LET where == {i \in (0..(Len(s.head) - 1)) \cup ((Len(s.head) + s.fill)..(StrLen(s) - 1)) :
                    CharAt(s, i) = ","}
    IN  IF where = {} THEN -1 ELSE CHOOSE i \in where : \A j \in where : i <= j

(***************************************************************************)
(* encoding/base64, StdEncoding (RFC 4648 alphabet, '=' padding).          *)
(***************************************************************************)
encodeStd ==
    << "A", "B", "C", "D", "E", "F", "G", "H", "I", "J", "K", "L", "M",
       "N", "O", "P", "Q", "R", "S", "T", "U", "V", "W", "X", "Y", "Z",
       "a", "b", "c", "d", "e", "f", "g", "h", "i", "j", "k", "l", "m",
       "n", "o", "p", "q", "r", "s", "t", "u", "v", "w", "x", "y", "z",
       "0", "1", "2", "3", "4", "5", "6", "7", "8", "9", "+", "/" >>

IsB64Char(c) == \E i \in 1..64 : encodeStd[i] = c

decodeMap(c) == (CHOOSE i \in 1..64 : encodeStd[i] = c) - 1

Zeros(n) == [i \in 1..n |-> 0]

\* EncodeToString of a sequence of bytes.
RECURSIVE EncodeSeq(_)
EncodeSeq(src) ==
    IF Len(src) = 0 THEN <<>>
    ELSE IF Len(src) = 1
      THEN LET val == src[1] * 65536
           IN  << encodeStd[(val \div 262144) + 1], encodeStd[((val \div 4096) % 64) + 1], "=", "=" >>
    ELSE IF Len(src) = 2
      THEN LET val == src[1] * 65536 + src[2] * 256
           IN  << encodeStd[(val \div 262144) + 1], encodeStd[((val \div 4096) % 64) + 1],
                  encodeStd[((val \div 64) % 64) + 1], "=" >>
    ELSE LET val == src[1] * 65536 + src[2] * 256 + src[3]
         IN  << encodeStd[(val \div 262144) + 1], encodeStd[((val \div 4096) % 64) + 1],
                encodeStd[((val \div 64) % 64) + 1], encodeStd[(val % 64) + 1] >>
             \o EncodeSeq(SubSeq(src, 4, Len(src)))

\* EncodeToString of a buffer: the head is completed to whole 3-byte groups
\* with zero bytes of the fill, each further group of three zero bytes is
\* "AAAA", and the last one or two zero bytes are encoded with padding.
EncodeToString(b) ==
    LET k == (3 - (Len(b.head) % 3)) % 3
    IN  IF b.fill < k
          THEN Str(EncodeSeq(b.head \o Zeros(b.fill)))
          ELSE [head |-> EncodeSeq(b.head \o Zeros(k)),
                fill |-> 4 * ((b.fill - k) \div 3),
                tail |-> EncodeSeq(Zeros((b.fill - k) % 3))]

IsNewline(c) == c = "\n" \/ c = "\r"

RECURSIVE StripNewlines(_)
StripNewlines(src) ==
    IF src = <<>> THEN <<>>
    ELSE IF IsNewline(Head(src)) THEN StripNewlines(Tail(src))
    ELSE <<Head(src)>> \o StripNewlines(Tail(src))

DecodeQuad(c1, c2, c3, c4) ==
    LET val == decodeMap(c1) * 262144 + decodeMap(c2) * 4096 + decodeMap(c3) * 64 + decodeMap(c4)
    IN  << val \div 65536, (val \div 256) % 256, val % 256 >>

\* The quanta of 4 characters of an input without newlines; [ok, out].
RECURSIVE DecodeQuanta(_)
DecodeQuanta(src) ==
    IF Len(src) = 0 THEN [ok |-> TRUE, out |-> <<>>]
    ELSE IF Len(src) < 4 \/ ~IsB64Char(src[1]) \/ ~IsB64Char(src[2])
      THEN [ok |-> FALSE, out |-> <<>>]
    ELSE IF IsB64Char(src[3]) /\ IsB64Char(src[4])
      THEN LET rest == DecodeQuanta(SubSeq(src, 5, Len(src)))
           IN  [ok |-> rest.ok, out |-> DecodeQuad(src[1], src[2], src[3], src[4]) \o rest.out]
    ELSE IF IsB64Char(src[3]) /\ src[4] = "=" /\ Len(src) = 4
      THEN [ok |-> TRUE, out |-> SubSeq(DecodeQuad(src[1], src[2], src[3], "A"), 1, 2)]
    ELSE IF src[3] = "=" /\ src[4] = "=" /\ Len(src) = 4
      THEN [ok |-> TRUE, out |-> SubSeq(DecodeQuad(src[1], src[2], "A", "A"), 1, 1)]
    ELSE [ok |-> FALSE, out |-> <<>>]

\* base64.StdEncoding.DecodeString: '\r' and '\n' are skipped, every other
\* character outside the alphabet is an error, and padding is required and
\* may only end the input.  ok is err == nil.
DecodeString(src) == DecodeQuanta(StripNewlines(src))

(***************************************************************************)
(* ValidateImageSizeFromBase64                                             *)
(***************************************************************************)
\* base64Len: the length that is measured.
Base64Len(s) ==
    IF HasDataPrefix(s) /\ FirstComma(s) >= 0
      THEN StrLen(s) - FirstComma(s) - 1
      ELSE StrLen(s)

\* Mutant: padding is not accounted for.
Padding_Ignored(s) == 0

\* padding: the last and the last but one character of the whole string.
Padding(s) ==
    LET base64Len == Base64Len(s)
    IN  (IF base64Len > 0 /\ CharAt(s, StrLen(s) - 1) = "=" THEN 1 ELSE 0)
      + (IF base64Len > 0 /\ base64Len > 1 /\ CharAt(s, StrLen(s) - 2) = "=" THEN 1 ELSE 0)

\* decodedSize
DecodedSize(s) == ((Base64Len(s) * 3) \div 4) - Padding(s)

ValidateImageSizeFromBase64(s) ==
    IF StrLen(s) = 0
      THEN ImageValidationError("image_data", "base64 image data is empty")
      ELSE IF DecodedSize(s) > MaxImageSizeBytes
             THEN ImageValidationError("image_size", "image size exceeds OpenAI limit")
             ELSE NilError

(***************************************************************************)
(* ValidateBase64ImageForOpenAI                                            *)
(***************************************************************************)
\* cleanBase64
CleanBase64(s) ==
    IF HasDataPrefix(s) /\ FirstComma(s) >= 0
      THEN Suffix(s, FirstComma(s) + 1)
      ELSE s

\* Mutant: only the first quantum is decoded.
DecodedPrefix_OneQuantum(s) ==
    LET clean == CleanBase64(s)
    IN  DecodeString(Prefix(clean, Min(StrLen(clean), 4)))

\* cleanBase64[:min(len(cleanBase64), 20)]
DecodedPrefix(s) ==
    LET clean == CleanBase64(s)
    IN  DecodeString(Prefix(clean, Min(StrLen(clean), 20)))

\* Mutant: a prefix that does not decode is reported as a format failure.
ValidateBase64ImageForOpenAI_DecodeAsFormat(s) ==
    IF ValidateImageSizeFromBase64(s) # NilError
      THEN ValidateImageSizeFromBase64(s)
      ELSE IF ~DecodedPrefix(s).ok
             THEN ImageValidationError("image_format", "invalid base64 encoding")
             ELSE IF ValidateImageFormat(Bytes(DecodedPrefix(s).out)) # NilError
                    THEN ValidateImageFormat(Bytes(DecodedPrefix(s).out))
                    ELSE NilError

ValidateBase64ImageForOpenAI(s) ==
    IF ValidateImageSizeFromBase64(s) # NilError
      THEN ValidateImageSizeFromBase64(s)
      ELSE IF ~DecodedPrefix(s).ok
             THEN ImageValidationError("image_data", "invalid base64 encoding")
             ELSE IF ValidateImageFormat(Bytes(DecodedPrefix(s).out)) # NilError
                    THEN ValidateImageFormat(Bytes(DecodedPrefix(s).out))
                    ELSE NilError

(***************************************************************************)
(* detectImageMimeType                                                     *)
(***************************************************************************)
MimeOfMagic(decoded) ==
    IF decoded[1] = 137 /\ decoded[2] = 80 /\ decoded[3] = 78 /\ decoded[4] = 71
      THEN "image/png"
    ELSE IF decoded[1] = 255 /\ decoded[2] = 216 /\ decoded[3] = 255
      THEN "image/jpeg"
    ELSE IF decoded[1] = 71 /\ decoded[2] = 73 /\ decoded[3] = 70
      THEN "image/gif"
    ELSE IF decoded[1] = 82 /\ decoded[2] = 73 /\ decoded[3] = 70 /\ decoded[4] = 70
      THEN IF Len(decoded) >= 12 /\ decoded[9] = 87 /\ decoded[10] = 69
                /\ decoded[11] = 66 /\ decoded[12] = 80
             THEN "image/webp"
             ELSE "image/jpeg"
    ELSE IF decoded[1] = 66 /\ decoded[2] = 77
      THEN "image/bmp"
    ELSE "image/jpeg"

\* Mutant: a string shorter than 20 characters is decoded like any other.
detectImageMimeType_NoLengthCheck(s) ==
    LET d == DecodeString(Prefix(s, Min(StrLen(s), 16)))
    IN  IF ~d.ok \/ Len(d.out) < 4
          THEN "image/jpeg"
          ELSE MimeOfMagic(d.out)

detectImageMimeType(s) ==
    IF StrLen(s) < 20
      THEN "image/jpeg"
      ELSE LET d == DecodeString(Prefix(s, Min(StrLen(s), 16)))
           IN  IF ~d.ok \/ Len(d.out) < 4
                 THEN "image/jpeg"
                 ELSE MimeOfMagic(d.out)

(***************************************************************************)
(* EncodeImageToBase64, PrepareImageDataURI                                *)
(***************************************************************************)
EncodeImageToBase64(imageBytes) == EncodeToString(imageBytes)

MimeChars(mimeType) ==
    CASE mimeType = "image/png"  -> <<"i", "m", "a", "g", "e", "/", "p", "n", "g">>
      [] mimeType = "image/gif"  -> <<"i", "m", "a", "g", "e", "/", "g", "i", "f">>
      [] mimeType = "image/webp" -> <<"i", "m", "a", "g", "e", "/", "w", "e", "b", "p">>
      [] mimeType = "image/bmp"  -> <<"i", "m", "a", "g", "e", "/", "b", "m", "p">>
      [] OTHER                   -> <<"i", "m", "a", "g", "e", "/", "j", "p", "e", "g">>

\* fmt.Sprintf("data:%s;base64,%s", mimeType, base64Data), with "" read as
\* "image/jpeg".
PrepareImageDataURI(s, mimeType) ==
    Concat(<<"d", "a", "t", "a", ":">> \o MimeChars(mimeType)
             \o <<";", "b", "a", "s", "e", "6", "4", ",">>, s)

(***************************************************************************)
(* The extraction service: types.  A Go string that is only copied or      *)
(* compared with "" is a TLA+ string; Temperature (a float32) is held in   *)
(* thousandths; a pointer is a sequence of at most one element (<<>> is    *)
(* nil); an error is the sequence of the parts of its message (<<>> is     *)
(* nil).                                                                   *)
(***************************************************************************)
\* The zero value of ServiceConfig.
ZeroConfig ==
    [APIKey |-> "", DefaultCurrency |-> "", DefaultLanguage |-> "", DefaultTimezone |-> "",
     VisionModel |-> "", CompletionModel |-> "", MaxTokens |-> 0, Temperature |-> 0]

\* The zero value of ReceiptExtractionRequest.
ZeroRequest ==
    [ImageData |-> Str(<<>>), ImageURL |-> Str(<<>>),
     ExpectedCurrency |-> "", ExpectedLanguage |-> "", StoreHint |-> ""]

\* The zero value of ReceiptData (the fields the extraction reads or writes).
ZeroReceiptData ==
    [StoreName |-> "", TotalAmount |-> 0, Currency |-> "", RawText |-> ""]

\* The zero value of ReceiptExtractionResponse.
ZeroResponse == [Success |-> FALSE, Data |-> <<>>, Error |-> <<>>, RawText |-> ""]

NothingSent == [imageURL |-> Str(<<>>), prompt |-> <<>>]

NothingReceived ==
    [kind |-> "", cause |-> "", status |-> 0,
     body |-> [raw |-> "", json |-> FALSE, error |-> <<>>, choices |-> <<>>]]

\* The extraction service is not in use.
ExtractionOff ==
    /\ svc = [config |-> ZeroConfig, apiKey |-> ""]
    /\ pc = "off"
    /\ ctx = ""
    /\ entry = ""
    /\ req = ZeroRequest
    /\ sent = NothingSent
    /\ requests = 0
    /\ received = NothingReceived
    /\ resp = ZeroResponse
    /\ err = <<>>

\* The validation functions are not in use.
ValidationOff ==
    /\ stage = "off"
    /\ imageData = Bytes(<<>>)
    /\ base64Data = Str(<<>>)
    /\ ret = [fn |-> "", err |-> NilError, mime |-> ""]

\* No call on the configuration was made.
NoConfigCall ==
    [fn |-> "", config |-> ZeroConfig, environ |-> "", before |-> ZeroConfig,
     service |-> <<>>, err |-> <<>>]

\* The Service's configuration is not under study.
ConfigOff == cfg = NoConfigCall

\* No record is under study.
RecordsOff ==
    /\ record = <<>>
    /\ out = [fn |-> "", value |-> <<>>]

\* No Lambda handler is in use.
HandlersOff == handler = [fn |-> ""] /\ sheet = <<>>

(***************************************************************************)
(* The inputs of the validation functions.                                 *)
(***************************************************************************)
PNGFile == <<137, 80, 78, 71, 13, 10, 26, 10, 0, 0, 0, 13>>
JPEGFile == <<255, 216, 255, 224, 0, 16, 74, 70, 73, 70, 0, 1>>
GIFFile == <<71, 73, 70, 56, 57, 97, 1, 0, 1, 0, 0, 0>>
WEBPFile == <<82, 73, 70, 70, 0, 0, 0, 0, 87, 69, 66, 80>>
BMPFile == <<66, 77, 0, 0, 0, 0, 0, 0, 0, 0, 0, 0>>

FileHeaders == {PNGFile, JPEGFile, GIFFile, WEBPFile, BMPFile, <<>>}

\* The first n bytes of a file (zero bytes after its header), with byte k
\* overwritten when k > 0.
HeadOf(file, n, k) ==
    [i \in 1..n |-> IF i = k THEN 1 ELSE IF i <= Len(file) THEN file[i] ELSE 0]

\* Buffers of a few bytes, and buffers whose length is around the size limit.
Buffers ==
    UNION { { [head |-> HeadOf(file, n, k), fill |-> f] :
                f \in (0..MaxSmallFill)
                      \cup ((MaxImageSizeBytes - n - NearLimit)..(MaxImageSizeBytes - n + NearLimit)) } :
            file \in FileHeaders, n \in 0..MaxHeadLen, k \in 0..MaxHeadLen }

StringHeads ==
    { <<>>,
      <<"i", "V", "B", "O", "R", "w", "0", "K", "G", "g", "o", "A">>,
      <<"i", "V", "B", "O", "!", "w", "0", "K", "G", "g", "o", "A">>,
      <<"i", "V", "B", "O", "\n", "R", "w", "0", "K", "G", "g", "o", "A">>,
      <<"Q", "k", "0", "A">>,
      <<"/", "9", "j", "/">>,
      <<"d", "a", "t", "a", ",">>,
      <<"d", "a", "t", "a", ":", ",">>,
      <<"d", "a", "t", "a", ":", "i", "m", "a", "g", "e", "/", "p", "n", "g", ";",
        "b", "a", "s", "e", "6", "4">>,
      <<"d", "a", "t", "a", ":", "i", "m", "a", "g", "e", "/", "p", "n", "g", ";",
        "b", "a", "s", "e", "6", "4", ",", "i", "V", "B", "O", "R", "w", "0", "K">>,
      <<"d", "a", "t", "a", ":", "i", "m", "a", "g", "e", "/", "p", "n", "g", ";",
        "b", "a", "s", "e", "6", "4", ",", "i", "V", "B", "O", ",", "w", "0", "K">> }

StringTails ==
    { <<>>, <<"=">>, <<"=", "=">>, <<"=", "=", "=">>, <<"=", "A">>, <<"A", "=">>,
      <<"!">>, <<",">> }

\* The least measured length whose estimate exceeds the limit, before padding.
Base64LimitLen == ((MaxImageSizeBytes + 1) * 4) \div 3

\* Strings of a few characters, strings longer than the decoded prefix, and
\* strings whose measured length is around the limit.
Strings ==
    UNION { { [head |-> h, fill |-> f, tail |-> t] :
                f \in (0..MaxSmallFill) \cup {16, 20}
                      \cup { Base64LimitLen - Base64Len([head |-> h, fill |-> 0, tail |-> t]) + d :
                               d \in (-NearLimit - 1)..(NearLimit + 1) } } :
            h \in StringHeads, t \in StringTails }

NoCall == [fn |-> "", err |-> NilError, mime |-> ""]

Returned(fn, e) == [fn |-> fn, err |-> e, mime |-> ""]

ReturnedMime(fn, mime) == [fn |-> fn, err |-> NilError, mime |-> mime]

InitValidate ==
    /\ ExtractionOff
    /\ ConfigOff
    /\ HandlersOff
    /\ RecordsOff
    /\ ret = NoCall
    /\ \/ stage = "bytes" /\ imageData \in Buffers /\ base64Data = Str(<<>>)
       \/ stage = "string" /\ imageData = Bytes(<<>>) /\ base64Data \in Strings

CallValidateImageSize ==
    /\ stage = "bytes"
    /\ ret' = Returned("ValidateImageSize", ValidateImageSize(imageData))
    /\ UNCHANGED <<stage, imageData, base64Data>>
    /\ UNCHANGED <<extVars, cfgVars, recVars, hdlVars>>

CallValidateImageFormat ==
    /\ stage = "bytes"
    /\ ret' = Returned("ValidateImageFormat", ValidateImageFormat(imageData))
    /\ UNCHANGED <<stage, imageData, base64Data>>
    /\ UNCHANGED <<extVars, cfgVars, recVars, hdlVars>>

CallValidateImageForOpenAI ==
    /\ stage = "bytes"
    /\ ret' = Returned("ValidateImageForOpenAI", ValidateImageForOpenAI(imageData))
    /\ UNCHANGED <<stage, imageData, base64Data>>
    /\ UNCHANGED <<extVars, cfgVars, recVars, hdlVars>>

CallEncodeImageToBase64 ==
    /\ stage = "bytes"
    /\ stage' = "encoded"
    /\ base64Data' = EncodeImageToBase64(imageData)
    /\ ret' = NoCall
    /\ UNCHANGED imageData
    /\ UNCHANGED <<extVars, cfgVars, recVars, hdlVars>>

CallPrepareImageDataURI ==
    /\ stage \in {"encoded", "string"}
    /\ stage' = IF stage = "encoded" THEN "encodedURI" ELSE "stringURI"
    /\ base64Data' = PrepareImageDataURI(base64Data, detectImageMimeType(base64Data))
    /\ ret' = NoCall
    /\ UNCHANGED imageData
    /\ UNCHANGED <<extVars, cfgVars, recVars, hdlVars>>

CallValidateImageSizeFromBase64 ==
    /\ stage # "bytes"
    /\ ret' = Returned("ValidateImageSizeFromBase64", ValidateImageSizeFromBase64(base64Data))
    /\ UNCHANGED <<stage, imageData, base64Data>>
    /\ UNCHANGED <<extVars, cfgVars, recVars, hdlVars>>

CallValidateBase64ImageForOpenAI ==
    /\ stage # "bytes"
    /\ ret' = Returned("ValidateBase64ImageForOpenAI", ValidateBase64ImageForOpenAI(base64Data))
    /\ UNCHANGED <<stage, imageData, base64Data>>
    /\ UNCHANGED <<extVars, cfgVars, recVars, hdlVars>>

CallDetectImageMimeType ==
    /\ stage # "bytes"
    /\ ret' = ReturnedMime("detectImageMimeType", detectImageMimeType(base64Data))
    /\ UNCHANGED <<stage, imageData, base64Data>>
    /\ UNCHANGED <<extVars, cfgVars, recVars, hdlVars>>

NextValidate ==
    \/ CallValidateImageSize
    \/ CallValidateImageFormat
    \/ CallValidateImageForOpenAI
    \/ CallEncodeImageToBase64
    \/ CallPrepareImageDataURI
    \/ CallValidateImageSizeFromBase64
    \/ CallValidateBase64ImageForOpenAI
    \/ CallDetectImageMimeType

SpecValidate == InitValidate /\ [][NextValidate]_vars

(***************************************************************************)
(* Properties of the image validation.                                     *)
(***************************************************************************)
\* sig is a prefix of the buffer b.
HasBytePrefix(b, sig) ==
    BufLen(b) >= Len(sig) /\ \A i \in 1..Len(sig) : At(b, i - 1) = sig[i]

\* The buffer starts with the signature of a supported format.
StartsWithSignature(b) ==
    \/ HasBytePrefix(b, <<137, 80, 78, 71>>)
    \/ HasBytePrefix(b, <<255, 216, 255>>)
    \/ HasBytePrefix(b, <<71, 73, 70>>)
    \/ /\ HasBytePrefix(b, <<82, 73, 70, 70>>)
       /\ BufLen(b) >= 12
       /\ <<At(b, 8), At(b, 9), At(b, 10), At(b, 11)>> = <<87, 69, 66, 80>>

\* C1 as stated: ValidateImageForOpenAI succeeds for every buffer of at most
\* MaxImageSizeBytes bytes that starts with a PNG, JPEG, GIF or WEBP signature,
\* and fails for every buffer of MaxImageSizeBytes + 1 bytes or more.
C1_AnyLengthWithSignature ==
    ret.fn = "ValidateImageForOpenAI" =>
        /\ (BufLen(imageData) <= MaxImageSizeBytes /\ StartsWithSignature(imageData))
              => ret.err = NilError
        /\ BufLen(imageData) >= MaxImageSizeBytes + 1 => ret.err # NilError

\* C1 amended: ValidateImageForOpenAI succeeds for every buffer of at least 4
\* and at most MaxImageSizeBytes bytes that starts with a PNG, JPEG, GIF or
\* WEBP signature, and fails for every buffer of MaxImageSizeBytes + 1 bytes
\* or more, whatever its signature.
C1_FourBytesWithSignature ==
    ret.fn = "ValidateImageForOpenAI" =>
        /\ (BufLen(imageData) >= 4 /\ BufLen(imageData) <= MaxImageSizeBytes
              /\ StartsWithSignature(imageData))
              => ret.err = NilError
        /\ BufLen(imageData) >= MaxImageSizeBytes + 1 => ret.err # NilError

\* A buffer of exactly MaxImageSizeBytes bytes with a signature was accepted.
C1_Witness ==
    /\ ret.fn = "ValidateImageForOpenAI"
    /\ BufLen(imageData) = MaxImageSizeBytes
    /\ StartsWithSignature(imageData)
    /\ ret.err = NilError

\* C2: ValidateImageFormat returns nil if and only if the buffer has at least 4
\* bytes and starts with a PNG, JPEG, GIF or WEBP signature; every other
\* buffer, the BMP signature and four zero bytes among them, is rejected with
\* field image_format.
C2_FormatAcceptedIffSignature ==
    ret.fn = "ValidateImageFormat" =>
        /\ ret.err = NilError <=> (BufLen(imageData) >= 4 /\ StartsWithSignature(imageData))
        /\ ret.err # NilError => ret.err.Field = "image_format"
        /\ imageData \in {Bytes(<<66, 77, 0, 0>>), Bytes(<<0, 0, 0, 0>>)}
              => ret.err.Field = "image_format"

\* The 4-byte BMP buffer was rejected.
C2_Witness ==
    /\ ret.fn = "ValidateImageFormat"
    /\ imageData = Bytes(<<66, 77, 0, 0>>)
    /\ ret.err.Field = "image_format"

\* C3: ValidateImageForOpenAI returns the failure of the size check when that
\* check fails and the result of the format check otherwise: image_data for an
\* empty buffer, image_size for an oversized one even when its format is
\* unsupported, and image_format only for a buffer that passes the size check.
C3_SizeBeforeFormat ==
    ret.fn = "ValidateImageForOpenAI" =>
        /\ BufLen(imageData) = 0 => ret.err.Field = "image_data"
        /\ BufLen(imageData) > MaxImageSizeBytes => ret.err.Field = "image_size"
        /\ ret.err.Field = "image_format"
              => (BufLen(imageData) > 0 /\ BufLen(imageData) <= MaxImageSizeBytes)
        /\ ret.err.Field \in {"", "image_data", "image_size", "image_format"}

\* An oversized buffer of an unsupported format was rejected for its size.
C3_Witness ==
    /\ ret.fn = "ValidateImageForOpenAI"
    /\ BufLen(imageData) > MaxImageSizeBytes
    /\ ~StartsWithSignature(imageData)
    /\ ret.err.Field = "image_size"

\* C4: for every buffer of n >= 1 bytes, the size estimated from its standard
\* base64 encoding is n, and ValidateImageSizeFromBase64 rejects the encoding
\* for its size exactly when n > MaxImageSizeBytes.
C4_EstimateRoundTrip ==
    (stage = "encoded" /\ BufLen(imageData) >= 1) =>
        /\ DecodedSize(base64Data) = BufLen(imageData)
        /\ ret.fn = "ValidateImageSizeFromBase64" =>
              /\ ret.err.Field = "image_size" <=> BufLen(imageData) > MaxImageSizeBytes
              /\ ret.err = NilError <=> BufLen(imageData) <= MaxImageSizeBytes

\* The padded encoding of a buffer of exactly MaxImageSizeBytes bytes was
\* accepted.
C4_Witness ==
    /\ stage = "encoded"
    /\ ret.fn = "ValidateImageSizeFromBase64"
    /\ BufLen(imageData) = MaxImageSizeBytes
    /\ CharAt(base64Data, StrLen(base64Data) - 1) = "="
    /\ ret.err = NilError

\* The payload of a string: what follows the first comma when the string
\* starts with "data:" and holds a comma, the whole string otherwise.
PayloadOf(s) ==
    IF StrLen(s) >= 5 /\ Prefix(s, 5) = <<"d", "a", "t", "a", ":">>
         /\ \E i \in 0..(Len(s.head) - 1) : s.head[i + 1] = ","
      THEN Suffix(s, (CHOOSE i \in 0..(Len(s.head) - 1) :
                         s.head[i + 1] = "," /\ \A j \in 0..(i - 1) : s.head[j + 1] # ",") + 1)
      ELSE IF StrLen(s) >= 5 /\ Prefix(s, 5) = <<"d", "a", "t", "a", ":">>
                /\ \E i \in 1..Len(s.tail) : s.tail[i] = ","
             THEN Suffix(s, Len(s.head) + s.fill
                              + (CHOOSE i \in 1..Len(s.tail) :
                                   s.tail[i] = "," /\ \A j \in 1..(i - 1) : s.tail[j] # ","))
             ELSE s

\* The number of '=' characters that end the string, counted up to 2.
TrailingPadding(s) ==
    IF StrLen(s) >= 2 /\ CharAt(s, StrLen(s) - 1) = "=" /\ CharAt(s, StrLen(s) - 2) = "="
      THEN 2
      ELSE IF StrLen(s) >= 1 /\ CharAt(s, StrLen(s) - 1) = "=" THEN 1 ELSE 0

\* floor(L * 3 / 4) - p of the payload.
PayloadEstimate(s) ==
    ((StrLen(PayloadOf(s)) * 3) \div 4) - TrailingPadding(PayloadOf(s))

\* C5: ValidateImageSizeFromBase64 fails with field image_data on the empty
\* string, and on every other string fails, with field image_size, exactly when
\* floor(L * 3 / 4) - p exceeds MaxImageSizeBytes, L being the length of the
\* payload and p the number (0, 1 or 2) of '=' characters that end it.
C5_EstimateOfPayload ==
    ret.fn = "ValidateImageSizeFromBase64" =>
        /\ StrLen(base64Data) = 0 => ret.err.Field = "image_data"
        /\ StrLen(base64Data) > 0 =>
              /\ ret.err.Field = "image_size" <=> PayloadEstimate(base64Data) > MaxImageSizeBytes
              /\ ret.err = NilError <=> PayloadEstimate(base64Data) <= MaxImageSizeBytes

\* The first min(len, 20) characters of the payload, decoded.
PayloadPrefixDecoded(s) ==
    DecodeString(Prefix(PayloadOf(s), Min(StrLen(PayloadOf(s)), 20)))

\* C6: ValidateBase64ImageForOpenAI returns the failure of the size estimate
\* when there is one, whether the payload decodes or not; otherwise field
\* image_data when the first min(len, 20) characters of the payload do not
\* decode, and otherwise the result of the format check of the decoded prefix.
\* Field image_format is returned only for a prefix that decodes.
C6_SizeThenDecodeThenFormat ==
    ret.fn = "ValidateBase64ImageForOpenAI" =>
        /\ ValidateImageSizeFromBase64(base64Data) # NilError
              => ret.err = ValidateImageSizeFromBase64(base64Data)
        /\ (ValidateImageSizeFromBase64(base64Data) = NilError
              /\ ~PayloadPrefixDecoded(base64Data).ok)
              => ret.err.Field = "image_data"
        /\ (ValidateImageSizeFromBase64(base64Data) = NilError
              /\ PayloadPrefixDecoded(base64Data).ok)
              => ret.err = ValidateImageFormat(Bytes(PayloadPrefixDecoded(base64Data).out))
        /\ ret.err.Field = "image_format" => PayloadPrefixDecoded(base64Data).ok

\* A data URI of acceptable size whose payload does not decode was rejected
\* with field image_data.
C6_Witness ==
    /\ ret.fn = "ValidateBase64ImageForOpenAI"
    /\ HasDataPrefix(base64Data)
    /\ StrLen(PayloadOf(base64Data)) > 20
    /\ ~PayloadPrefixDecoded(base64Data).ok
    /\ ret.err.Field = "image_data"

MimeTypes == {"image/png", "image/jpeg", "image/gif", "image/webp", "image/bmp"}

\* The first min(len, 16) characters of the string, decoded.
LeadingDecoded(s) == DecodeString(Prefix(s, Min(StrLen(s), 16)))

\* C7: detectImageMimeType returns one of the five MIME types for every
\* string; image/jpeg when the string has fewer than 20 characters or its
\* first 16 characters do not decode; and image/jpeg for a RIFF container
\* whose bytes 8 to 11 are not "WEBP".
C7_MimeTotalWithJpegDefault ==
    ret.fn = "detectImageMimeType" =>
        /\ ret.mime \in MimeTypes
        /\ (StrLen(base64Data) < 20 \/ ~LeadingDecoded(base64Data).ok)
              => ret.mime = "image/jpeg"
        /\ (StrLen(base64Data) >= 20 /\ LeadingDecoded(base64Data).ok
              /\ Len(LeadingDecoded(base64Data).out) >= 12
              /\ SubSeq(LeadingDecoded(base64Data).out, 1, 4) = <<82, 73, 70, 70>>
              /\ SubSeq(LeadingDecoded(base64Data).out, 9, 12) # <<87, 69, 66, 80>>)
              => ret.mime = "image/jpeg"

\* The encoding of a PNG file of fewer than 15 bytes (fewer than 20
\* characters) was given the default type.
C7_Witness ==
    /\ ret.fn = "detectImageMimeType"
    /\ stage = "encoded"
    /\ HasBytePrefix(imageData, <<137, 80, 78, 71>>)
    /\ StrLen(base64Data) = 16
    /\ ret.mime = "image/jpeg"

(***************************************************************************)
(* NewService                                                              *)
(***************************************************************************)
\* Mutant: the time zone is left as supplied.
NewService_NoTimezoneDefault(config, environ) ==
    LET apiKey == IF config.APIKey = "" THEN environ ELSE config.APIKey
        defaulted ==
            [config EXCEPT
               !.VisionModel = IF @ = "" THEN "gpt-4o" ELSE @,
               !.CompletionModel = IF @ = "" THEN "gpt-4o" ELSE @,
               !.MaxTokens = IF @ = 0 THEN 4096 ELSE @,
               !.Temperature = IF @ = 0 THEN 100 ELSE @,
               !.DefaultCurrency = IF @ = "" THEN "USD" ELSE @,
               !.DefaultLanguage = IF @ = "" THEN "en" ELSE @]
    IN  IF apiKey = ""
          THEN [service |-> <<>>, err |-> <<"OpenAI API key is required">>]
          ELSE [service |-> <<[config |-> defaulted, apiKey |-> apiKey]>>, err |-> <<>>]

\* environ is the value of OPENAI_API_KEY.  service is <<>> when an error is
\* returned.  Temperature is in thousandths.
NewService(config, environ) ==
    LET apiKey == IF config.APIKey = "" THEN environ ELSE config.APIKey
        defaulted ==
            [config EXCEPT
               !.VisionModel = IF @ = "" THEN "gpt-4o" ELSE @,
               !.CompletionModel = IF @ = "" THEN "gpt-4o" ELSE @,
               !.MaxTokens = IF @ = 0 THEN 4096 ELSE @,
               !.Temperature = IF @ = 0 THEN 100 ELSE @,
               !.DefaultCurrency = IF @ = "" THEN "USD" ELSE @,
               !.DefaultLanguage = IF @ = "" THEN "en" ELSE @,
               !.DefaultTimezone = IF @ = "" THEN "UTC" ELSE @]
    IN  IF apiKey = ""
          THEN [service |-> <<>>, err |-> <<"OpenAI API key is required">>]
          ELSE [service |-> <<[config |-> defaulted, apiKey |-> apiKey]>>, err |-> <<>>]

\* GetConfig returns a copy of the configuration.
GetConfig(s) == s.config

(***************************************************************************)
(* UpdateConfig                                                            *)
(***************************************************************************)
UpdateConfig(s, config) ==
    [apiKey |-> IF config.APIKey # "" THEN config.APIKey ELSE s.apiKey,
     config |->
        [s.config EXCEPT
           !.VisionModel = IF config.VisionModel # "" THEN config.VisionModel ELSE @,
           !.CompletionModel = IF config.CompletionModel # "" THEN config.CompletionModel ELSE @,
           !.MaxTokens = IF config.MaxTokens > 0 THEN config.MaxTokens ELSE @,
           !.Temperature = IF config.Temperature >= 0 THEN config.Temperature ELSE @,
           !.DefaultCurrency = IF config.DefaultCurrency # "" THEN config.DefaultCurrency ELSE @,
           !.DefaultLanguage = IF config.DefaultLanguage # "" THEN config.DefaultLanguage ELSE @,
           !.DefaultTimezone = IF config.DefaultTimezone # "" THEN config.DefaultTimezone ELSE @]]

(***************************************************************************)
(* buildReceiptExtractionPrompt.  The prompt is the sequence of the parts  *)
(* that fmt.Sprintf and += put together.                                   *)
(***************************************************************************)
\* Mutant: a non-empty service default wins over the request.
buildReceiptExtractionPrompt_DefaultFirst(s, r) ==
    LET currency == IF s.config.DefaultCurrency = "" THEN r.ExpectedCurrency
                                                     ELSE s.config.DefaultCurrency
        language == IF s.config.DefaultLanguage = "" THEN r.ExpectedLanguage
                                                     ELSE s.config.DefaultLanguage
    IN  << "You are an expert ... 7. If the currency is not visible, assume: ", currency,
           "\n8. The receipt may be in: ", language,
           " (or other languages - detect automatically) ... outside the JSON object." >>
        \o (IF r.StoreHint # ""
              THEN <<"\n\nAdditional context: This receipt is likely from ", r.StoreHint>>
              ELSE <<>>)

buildReceiptExtractionPrompt(s, r) ==
    LET currency == IF r.ExpectedCurrency = "" THEN s.config.DefaultCurrency
                                               ELSE r.ExpectedCurrency
        language == IF r.ExpectedLanguage = "" THEN s.config.DefaultLanguage
                                               ELSE r.ExpectedLanguage
    IN  << "You are an expert ... 7. If the currency is not visible, assume: ", currency,
           "\n8. The receipt may be in: ", language,
           " (or other languages - detect automatically) ... outside the JSON object." >>
        \o (IF r.StoreHint # ""
              THEN <<"\n\nAdditional context: This receipt is likely from ", r.StoreHint>>
              ELSE <<>>)

(***************************************************************************)
(* callVisionAPI, from the return of client.Do on.  Each returns           *)
(* [data, rawText, err]; data is a *ReceiptData.                           *)
(***************************************************************************)
VisionResult(data, rawText, e) == [data |-> data, rawText |-> rawText, err |-> e]

\* Mutant: the cause of the failure is not reported.
callVisionAPI_DoFailed_CauseDropped(cause) ==
    VisionResult(<<>>, "", <<"failed to call OpenAI API: ", "request failed">>)

\* client.Do returned an error (the cause: no connection, the context was
\* cancelled or its deadline passed, the client's 60 s timeout).
callVisionAPI_DoFailed(cause) ==
    VisionResult(<<>>, "", <<"failed to call OpenAI API: ", cause>>)

\* io.ReadAll of the response body returned an error.
callVisionAPI_ReadFailed(cause) ==
    VisionResult(<<>>, "", <<"failed to read response: ", cause>>)

\* %d of a status code.
Itoa(status) ==
    CASE status = 200 -> "200"
      [] status = 201 -> "201"
      [] status = 401 -> "401"
      [] status = 429 -> "429"
      [] status = 500 -> "500"
      [] OTHER -> "000"

\* The response was read: status is resp.StatusCode; body is the response
\* body with what json.Unmarshal makes of it (json: it decodes as an
\* openAIChatResponse; error: its error object's message, as a pointer;
\* choices: its choices, each the content string with what json.Unmarshal
\* makes of it as a ReceiptData).
callVisionAPI_Responded(status, body) ==
    IF status # 200
      THEN IF body.json /\ body.error # <<>>
             THEN VisionResult(<<>>, "", <<"OpenAI API error: ", body.error[1]>>)
             ELSE VisionResult(<<>>, "", <<"OpenAI API returned status ", Itoa(status), ": ", body.raw>>)
    ELSE IF ~body.json
      THEN VisionResult(<<>>, "", <<"failed to parse response: ", "invalid JSON">>)
    ELSE IF Len(body.choices) = 0
      THEN VisionResult(<<>>, "", <<"no choices returned from API">>)
    ELSE IF ~body.choices[1].json
      THEN VisionResult(<<>>, body.choices[1].raw,
                        <<"failed to parse receipt data: ", "invalid JSON">>)
    ELSE VisionResult(<<body.choices[1].data>>, body.choices[1].raw, <<>>)

(***************************************************************************)
(* ExtractReceiptData                                                      *)
(***************************************************************************)
\* imageURL, as prepared for the API.
PrepareImageURL(r) ==
    IF StrLen(r.ImageURL) = 0 /\ StrLen(r.ImageData) # 0
      THEN IF HasDataPrefix(r.ImageData)
             THEN r.ImageData
             ELSE PrepareImageDataURI(r.ImageData, detectImageMimeType(r.ImageData))
      ELSE r.ImageURL

\* Mutant: the failure response carries what was decoded so far.
ExtractReceiptData_Return_PartialData(v) ==
    IF v.err # <<>>
      THEN [resp |-> [Success |-> FALSE, Data |-> <<ZeroReceiptData>>, Error |-> v.err,
                      RawText |-> v.rawText],
            err |-> v.err]
      ELSE [resp |-> [Success |-> TRUE, Data |-> <<[v.data[1] EXCEPT !.RawText = v.rawText]>>,
                      Error |-> <<>>, RawText |-> v.rawText],
            err |-> <<>>]

\* What ExtractReceiptData returns once callVisionAPI has returned v.
ExtractReceiptData_Return(v) ==
    IF v.err # <<>>
      THEN [resp |-> [Success |-> FALSE, Data |-> <<>>, Error |-> v.err,
                      RawText |-> v.rawText],
            err |-> v.err]
      ELSE [resp |-> [Success |-> TRUE, Data |-> <<[v.data[1] EXCEPT !.RawText = v.rawText]>>,
                      Error |-> <<>>, RawText |-> v.rawText],
            err |-> <<>>]

\* The request the two convenience methods build from their hints (a map;
\* nil is the empty map).
RequestWithHints(r, hints) ==
    [r EXCEPT
       !.ExpectedCurrency = IF "currency" \in DOMAIN hints THEN hints["currency"] ELSE @,
       !.ExpectedLanguage = IF "language" \in DOMAIN hints THEN hints["language"] ELSE @,
       !.StoreHint = IF "store" \in DOMAIN hints THEN hints["store"] ELSE @]

\* ExtractReceiptData up to the return of the request validation or the call
\* of client.Do.
ExtractReceiptData_Begin(name, r) ==
    /\ pc = "idle"
    /\ entry' = name
    /\ req' = r
    /\ received' = NothingReceived
    /\ IF StrLen(r.ImageData) = 0 /\ StrLen(r.ImageURL) = 0
         THEN /\ pc' = "done"
              /\ sent' = NothingSent
              /\ requests' = 0
              /\ resp' = [Success |-> FALSE, Data |-> <<>>,
                          Error |-> <<"either image_data or image_url must be provided">>,
                          RawText |-> ""]
              /\ err' = <<"no image data provided">>
         ELSE /\ pc' = "inflight"
              /\ sent' = [imageURL |-> PrepareImageURL(r),
                          prompt |-> buildReceiptExtractionPrompt(svc, r)]
              /\ requests' = 1
              /\ resp' = ZeroResponse
              /\ err' = <<>>
    /\ UNCHANGED <<svc, ctx>>
    /\ UNCHANGED <<valVars, cfgVars, recVars>>

\* Mutant: a failed call is made once more.
callVisionAPI_Then_RetryOnce(v) ==
    IF v.err # <<>> /\ requests < 2 THEN "inflight" ELSE "done"

\* Where ExtractReceiptData goes when its call of callVisionAPI has returned
\* v: the call is made once, outside any loop, and both branches return.
callVisionAPI_Then(v) == "done"

\* ExtractReceiptData from the return of client.Do on; requests counts the
\* calls of client.Do.
ExtractReceiptData_End(v) ==
    /\ pc' = callVisionAPI_Then(v)
    /\ IF pc' = "done"
         THEN /\ resp' = ExtractReceiptData_Return(v).resp
              /\ err' = ExtractReceiptData_Return(v).err
              /\ requests' = requests
         ELSE /\ requests' = requests + 1
              /\ UNCHANGED <<resp, err>>
    /\ UNCHANGED <<svc, ctx, entry, req, sent>>
    /\ UNCHANGED <<valVars, cfgVars, recVars, hdlVars>>

(***************************************************************************)
(* The extraction service: inputs, initial state and steps.                *)
(***************************************************************************)
ConfigInputs ==
    { ZeroConfig,
      [ZeroConfig EXCEPT !.APIKey = "test-key"],
      [ZeroConfig EXCEPT !.APIKey = "test-key", !.DefaultCurrency = "KRW",
                         !.DefaultLanguage = "ko"] }

Environments == {"", "env-key"}

ImageDataInputs ==
    { Str(<<>>),
      Str(<<"b", "a", "s", "e", "6", "4", "d", "a", "t", "a">>),
      EncodeImageToBase64([head |-> PNGFile, fill |-> 3]),
      PrepareImageDataURI(EncodeImageToBase64([head |-> GIFFile, fill |-> 3]), "image/gif") }

ImageURLInputs ==
    { Str(<<>>),
      Str(<<"h", "t", "t", "p", "s", ":", "/", "/", "s", "3", "/", "r", ".", "p", "n", "g">>) }

RequestInputs ==
    { [ImageData |-> d, ImageURL |-> u, ExpectedCurrency |-> c, ExpectedLanguage |-> l,
       StoreHint |-> h] :
        d \in ImageDataInputs, u \in ImageURLInputs, c \in {"", "JPY"}, l \in {"", "ja"},
        h \in {"", "Walmart"} }

HintInputs ==
    { hints \in UNION { [keys -> {"", "JPY", "ja", "Walmart"}] :
                          keys \in SUBSET {"currency", "language", "store"} } :
        /\ "currency" \in DOMAIN hints => hints["currency"] \in {"", "JPY"}
        /\ "language" \in DOMAIN hints => hints["language"] \in {"", "ja"}
        /\ "store" \in DOMAIN hints => hints["store"] \in {"", "Walmart"} }

\* The content of a choice's message.
ContentInputs ==
    { [raw |-> "{\"store_name\":\"Acme\",\"total_amount\":42,\"currency\":\"USD\"}", json |-> TRUE,
       data |-> [ZeroReceiptData EXCEPT !.StoreName = "Acme", !.TotalAmount = 42,
                                        !.Currency = "USD"]],
      [raw |-> "{\"store_name\":\"Acme\",\"raw_text\":\"ACME 42.00\"}", json |-> TRUE,
       data |-> [ZeroReceiptData EXCEPT !.StoreName = "Acme", !.RawText = "ACME 42.00"]],
      [raw |-> "null", json |-> TRUE, data |-> ZeroReceiptData],
      [raw |-> "Sorry, I cannot read this receipt.", json |-> FALSE, data |-> ZeroReceiptData],
      [raw |-> "", json |-> FALSE, data |-> ZeroReceiptData] }

BodyInputs ==
    { [raw |-> "<html>502 Bad Gateway</html>", json |-> FALSE, error |-> <<>>, choices |-> <<>>],
      [raw |-> "", json |-> FALSE, error |-> <<>>, choices |-> <<>>],
      [raw |-> "{}", json |-> TRUE, error |-> <<>>, choices |-> <<>>],
      [raw |-> "{\"error\":{\"message\":\"Rate limit reached\"}}", json |-> TRUE,
       error |-> <<"Rate limit reached">>, choices |-> <<>>],
      [raw |-> "{\"error\":{\"message\":\"\"}}", json |-> TRUE, error |-> <<"">>,
       choices |-> <<>>] }
    \cup { [raw |-> "{\"choices\":[{\"message\":{\"content\":...}}]}", json |-> TRUE,
            error |-> <<>>, choices |-> <<c>>] : c \in ContentInputs }

StatusInputs == {200, 201, 401, 500}

\* ctx.Err() of a context that is done.
ContextErrors == {"context canceled", "context deadline exceeded"}

\* What client.Do fails with: no connection, the caller's context is done,
\* the client's own 60 s timeout has passed.
DoErrorInputs ==
    {"dial tcp: connection refused",
     "context deadline exceeded (Client.Timeout exceeded while awaiting headers)"}
      \cup ContextErrors

\* What io.ReadAll of the body fails with.
ReadErrorInputs ==
    {"unexpected EOF",
     "context deadline exceeded (Client.Timeout or context cancellation while reading body)"}
      \cup ContextErrors

\* The causes a call can fail with under the caller's context: the context's
\* error once it is done, and no context error before.
CausesUnder(c, causes) == IF c # "" THEN {c} ELSE causes \ ContextErrors

InitExtract ==
    /\ ValidationOff
    /\ ConfigOff
    /\ HandlersOff
    /\ RecordsOff
    /\ svc \in { NewService(ce[1], ce[2]).service[1] :
                   ce \in { ce \in ConfigInputs \X Environments :
                              NewService(ce[1], ce[2]).err = <<>> } }
    /\ pc = "idle"
    /\ ctx = ""
    /\ entry = ""
    /\ req = ZeroRequest
    /\ sent = NothingSent
    /\ requests = 0
    /\ received = NothingReceived
    /\ resp = ZeroResponse
    /\ err = <<>>

CallExtractReceiptData ==
    /\ pc = "idle"
    /\ UNCHANGED hdlVars
    /\ \E r \in RequestInputs : ExtractReceiptData_Begin("ExtractReceiptData", r)

CallExtractReceiptDataFromBase64 ==
    /\ pc = "idle"
    /\ UNCHANGED hdlVars
    /\ \E base64Image \in ImageDataInputs, hints \in HintInputs :
          ExtractReceiptData_Begin("ExtractReceiptDataFromBase64",
              RequestWithHints([ZeroRequest EXCEPT !.ImageData = base64Image], hints))

CallExtractReceiptDataFromURL ==
    /\ pc = "idle"
    /\ UNCHANGED hdlVars
    /\ \E imageURL \in ImageURLInputs, hints \in HintInputs :
          ExtractReceiptData_Begin("ExtractReceiptDataFromURL",
              RequestWithHints([ZeroRequest EXCEPT !.ImageURL = imageURL], hints))

\* The caller cancels the context, or its deadline passes, before the call or
\* while it is in flight.
ContextDone ==
    /\ pc \in {"idle", "inflight"}
    /\ ctx = ""
    /\ ctx' \in ContextErrors
    /\ UNCHANGED <<svc, pc, entry, req, sent, requests, received, resp, err>>
    /\ UNCHANGED <<valVars, cfgVars, recVars, hdlVars>>

ClientDoFails ==
    /\ pc = "inflight"
    /\ \E cause \in CausesUnder(ctx, DoErrorInputs) :
          /\ received' = [NothingReceived EXCEPT !.kind = "error", !.cause = cause]
          /\ ExtractReceiptData_End(callVisionAPI_DoFailed(cause))

ReadBodyFails ==
    /\ pc = "inflight"
    /\ \E status \in StatusInputs, cause \in CausesUnder(ctx, ReadErrorInputs) :
          /\ received' = [NothingReceived EXCEPT !.kind = "unread", !.cause = cause,
                                                 !.status = status]
          /\ ExtractReceiptData_End(callVisionAPI_ReadFailed(cause))

EndpointResponds ==
    /\ pc = "inflight"
    /\ ctx = ""
    /\ \E status \in StatusInputs, body \in BodyInputs :
          /\ received' = [NothingReceived EXCEPT !.kind = "response", !.status = status,
                                                 !.body = body]
          /\ ExtractReceiptData_End(callVisionAPI_Responded(status, body))

NextExtract ==
    \/ CallExtractReceiptData
    \/ CallExtractReceiptDataFromBase64
    \/ CallExtractReceiptDataFromURL
    \/ ContextDone
    \/ ClientDoFails
    \/ ReadBodyFails
    \/ EndpointResponds

SpecExtract == InitExtract /\ [][NextExtract]_vars

(***************************************************************************)
(* The Service's configuration: construction, then an update.              *)
(***************************************************************************)
\* Configurations with every field unset or set; the numbers also negative.
ServiceConfigs ==
    { [APIKey |-> k, DefaultCurrency |-> c, DefaultLanguage |-> l, DefaultTimezone |-> z,
       VisionModel |-> v, CompletionModel |-> m, MaxTokens |-> n, Temperature |-> t] :
        k \in {"", "test-api-key"}, c \in {"", "JPY"}, l \in {"", "ja"},
        z \in {"", "Asia/Seoul"}, v \in {"", "gpt-4o-mini"}, m \in {"", "gpt-4"},
        n \in {0, 2000, -1}, t \in {0, 200, -100} }

InitConfig ==
    /\ ValidationOff
    /\ ExtractionOff
    /\ RecordsOff
    /\ HandlersOff
    /\ cfg = NoConfigCall

CallNewService ==
    /\ cfg.fn = ""
    /\ \E config \in ServiceConfigs, environ \in Environments :
          LET r == NewService(config, environ)
          IN  /\ svc' = IF r.err = <<>> THEN r.service[1] ELSE svc
              /\ cfg' = [fn |-> "NewService", config |-> config, environ |-> environ,
                         before |-> ZeroConfig,
                         service |-> IF r.service = <<>> THEN <<>> ELSE <<"service">>,
                         err |-> r.err]
    /\ UNCHANGED <<pc, ctx, entry, req, sent, requests, received, resp, err>>
    /\ UNCHANGED <<valVars, recVars, hdlVars>>

\* The first update of a Service that was constructed.
CallUpdateConfig ==
    /\ cfg.fn = "NewService"
    /\ cfg.service # <<>>
    /\ \E config \in ServiceConfigs :
          /\ svc' = UpdateConfig(svc, config)
          /\ cfg' = [cfg EXCEPT !.fn = "UpdateConfig", !.config = config,
                                !.before = GetConfig(svc)]
    /\ UNCHANGED <<pc, ctx, entry, req, sent, requests, received, resp, err>>
    /\ UNCHANGED <<valVars, recVars, hdlVars>>

NextConfig ==
    \/ CallNewService
    \/ CallUpdateConfig

SpecConfig == InitConfig /\ [][NextConfig]_vars

(***************************************************************************)
(* Properties of the extraction service.                                   *)
(***************************************************************************)
ContextSentence == "\n\nAdditional context: This receipt is likely from "

\* C8: the prompt names the request's currency when the request gives one and
\* the service's default currency otherwise, and likewise, independently, for
\* the language; the "Additional context" sentence ends the prompt, naming the
\* store, if and only if the request's store hint is not empty.
C8_PromptOverridesAndHint ==
    (pc \in {"inflight", "done"} /\ requests > 0) =>
        /\ sent.prompt[2] = (IF req.ExpectedCurrency # "" THEN req.ExpectedCurrency
                                                          ELSE svc.config.DefaultCurrency)
        /\ sent.prompt[4] = (IF req.ExpectedLanguage # "" THEN req.ExpectedLanguage
                                                          ELSE svc.config.DefaultLanguage)
        /\ (\E i \in 1..Len(sent.prompt) : sent.prompt[i] = ContextSentence)
              <=> req.StoreHint # ""
        /\ req.StoreHint # "" =>
              /\ sent.prompt[Len(sent.prompt) - 1] = ContextSentence
              /\ sent.prompt[Len(sent.prompt)] = req.StoreHint

\* A prompt was built for a request that overrides the currency, leaves the
\* language to a service default other than the built-in one, and names a
\* store.
C8_Witness ==
    /\ pc = "inflight"
    /\ req.ExpectedCurrency = "JPY"
    /\ req.ExpectedLanguage = ""
    /\ svc.config.DefaultLanguage = "ko"
    /\ req.StoreHint = "Walmart"
    /\ sent.prompt[2] = "JPY"
    /\ sent.prompt[4] = "ko"

\* The message of an error is not the empty string.
NonEmptyMessage(e) == \E i \in 1..Len(e) : e[i] # ""

\* C9: whichever entry point was called, a returned outcome has Success = true
\* exactly when the returned error is nil and Data is not nil, and an outcome
\* with Success = false has a non-empty Error, no Data, and comes with a
\* non-nil error.
C9_UniformOutcome ==
    pc = "done" =>
        /\ resp.Success <=> (err = <<>> /\ resp.Data # <<>>)
        /\ ~resp.Success =>
              /\ NonEmptyMessage(resp.Error)
              /\ resp.Data = <<>>
              /\ err # <<>>

\* The URL wrapper returned a failure for a response whose content does not
\* decode as a receipt.
C9_Witness ==
    /\ pc = "done"
    /\ entry = "ExtractReceiptDataFromURL"
    /\ received.kind = "response"
    /\ received.status = 200
    /\ received.body.choices # <<>>
    /\ ~received.body.choices[1].json
    /\ ~resp.Success
    /\ err # <<>>

\* The text received with a response: its body, and the content of its first
\* choice.
TextReceived ==
    {received.body.raw}
      \cup (IF received.body.choices # <<>> THEN {received.body.choices[1].raw} ELSE {})

\* C10: when the endpoint returned a body, an API error (a status other than
\* success) and a parse failure (of the response body, or of the receipt JSON
\* in it) give an outcome whose RawText is the text that was received.
C10_RawTextPreserved ==
    ( /\ pc = "done"
      /\ received.kind = "response"
      /\ received.body.raw # ""
      /\ \/ received.status # 200
         \/ ~received.body.json
         \/ received.body.choices # <<>> /\ ~received.body.choices[1].json )
    => (~resp.Success /\ resp.RawText # "" /\ resp.RawText \in TextReceived)

\* The kind of failure an error of callVisionAPI reports, read off the fixed
\* text its message starts with.
KindOfError(e) ==
    CASE e = <<>> -> "none"
      [] e[1] \in {"failed to call OpenAI API: ", "failed to read response: "} -> "transport"
      [] e[1] \in {"OpenAI API error: ", "OpenAI API returned status "} -> "api"
      [] e[1] = "no choices returned from API" -> "no choices"
      [] e[1] \in {"failed to parse response: ", "failed to parse receipt data: "} -> "parse"
      [] OTHER -> "other"

\* A status of the 2xx class.
Is2xx(status) == status \in 200..299

\* C11: a failed HTTP call gives a transport error; a response with a non-2xx
\* status gives an API error, carrying the message of the body's error object
\* when the body parses and has one, else the status and the raw body; a
\* response with a 2xx status gives a parse error when its body does not
\* decode, a no-choices error when it has no choice, a parse error when the
\* content of its first choice does not decode, and no error otherwise.
C11_FailureKinds ==
    (pc = "done" /\ requests > 0) =>
        /\ received.kind \in {"error", "unread"} => KindOfError(err) = "transport"
        /\ (received.kind = "response" /\ ~Is2xx(received.status)) =>
              /\ KindOfError(err) = "api"
              /\ IF received.body.json /\ received.body.error # <<>>
                   THEN err = <<"OpenAI API error: ", received.body.error[1]>>
                   ELSE err = <<"OpenAI API returned status ", Itoa(received.status), ": ",
                                received.body.raw>>
        /\ (received.kind = "response" /\ Is2xx(received.status)) =>
              KindOfError(err) =
                 (IF ~received.body.json THEN "parse"
                  ELSE IF received.body.choices = <<>> THEN "no choices"
                  ELSE IF ~received.body.choices[1].json THEN "parse"
                  ELSE "none")

\* The same with "success" read as status 200 alone, as the code tests it.
FailureKindsByStatusOK ==
    (pc = "done" /\ requests > 0) =>
        /\ received.kind \in {"error", "unread"} => KindOfError(err) = "transport"
        /\ (received.kind = "response" /\ received.status # 200) =>
              KindOfError(err) = "api"
        /\ (received.kind = "response" /\ received.status = 200) =>
              KindOfError(err) =
                 (IF ~received.body.json THEN "parse"
                  ELSE IF received.body.choices = <<>> THEN "no choices"
                  ELSE IF ~received.body.choices[1].json THEN "parse"
                  ELSE "none")

\* C12: an invocation of an entry point calls the endpoint at most once, and
\* an invocation whose call failed has returned a failure after that one
\* call.
C12_NoRetry ==
    /\ requests \in {0, 1}
    /\ (pc = "done" /\ requests > 0 /\ KindOfError(err) \in {"transport", "api"}) =>
          /\ requests = 1
          /\ ~resp.Success
          /\ resp.Error = err

\* A call failed for want of a connection and the failure was returned after
\* one request.
C12_Witness ==
    /\ pc = "done"
    /\ received.kind = "error"
    /\ received.cause = "dial tcp: connection refused"
    /\ requests = 1
    /\ ~resp.Success

\* What ended the call, as the caller can tell from the error alone.
ReportedCause(e) ==
    CASE KindOfError(e) = "transport" /\ e[2] \in ContextErrors -> "caller cancelled"
      [] KindOfError(e) = "transport"
           /\ e[2] \in {"context deadline exceeded (Client.Timeout exceeded while awaiting headers)",
                        "context deadline exceeded (Client.Timeout or context cancellation while reading body)"}
           -> "endpoint timed out"
      [] KindOfError(e) = "api" -> "endpoint errored"
      [] OTHER -> "other"

\* What ended the call.
ActualCause ==
    CASE ctx # "" -> "caller cancelled"
      [] received.kind \in {"error", "unread"} /\ received.cause \in ContextErrors
           -> "caller cancelled"
      [] received.kind \in {"error", "unread"}
           /\ received.cause \in (DoErrorInputs \cup ReadErrorInputs)
                                    \ {"dial tcp: connection refused", "unexpected EOF"}
           -> "endpoint timed out"
      [] received.kind = "response" /\ received.status # 200 -> "endpoint errored"
      [] OTHER -> "other"

\* C13: once the caller's context is done, the call in flight ends in one
\* failure after its one request, and the error returned tells a cancelled
\* caller from the client's timeout from an error of the endpoint.
C13_CancellationDistinguished ==
    (pc = "done" /\ requests > 0) =>
        /\ ctx # "" => (~resp.Success /\ err # <<>> /\ requests = 1)
        /\ ReportedCause(err) = ActualCause

\* The caller cancelled the call in flight and the failure says so.
C13_Witness ==
    /\ pc = "done"
    /\ ctx = "context canceled"
    /\ requests = 1
    /\ received.kind = "error"
    /\ err = <<"failed to call OpenAI API: ", "context canceled">>
    /\ resp.Error = err

(***************************************************************************)
(* Properties of the Service's configuration.                              *)
(***************************************************************************)
ConfigFields == DOMAIN ZeroConfig

\* A field of an update is present when it is not the zero value of its type.
Present(config, f) ==
    IF f \in {"MaxTokens", "Temperature"} THEN config[f] # 0 ELSE config[f] # ""

\* C14: after UpdateConfig, GetConfig has the update's value in every field
\* that is present in the update and the value it had before the call in
\* every field that is empty or zero in the update.
C14_UpdateIsMerge ==
    cfg.fn = "UpdateConfig" =>
        \A f \in ConfigFields :
            GetConfig(svc)[f] = (IF Present(cfg.config, f) THEN cfg.config[f]
                                                           ELSE cfg.before[f])

\* The same for the fields and values the code does merge: the strings other
\* than APIKey, and MaxTokens unless negative.
UpdateIsMergeOfStringsAndMaxTokens ==
    cfg.fn = "UpdateConfig" =>
        \A f \in ConfigFields \ {"APIKey", "Temperature"} :
            (f = "MaxTokens" => cfg.config[f] >= 0) =>
                GetConfig(svc)[f] = (IF Present(cfg.config, f) THEN cfg.config[f]
                                                               ELSE cfg.before[f])

\* The built-in defaults.
BuiltInDefaults ==
    [VisionModel |-> "gpt-4o", CompletionModel |-> "gpt-4o", MaxTokens |-> 4096,
     Temperature |-> 100, DefaultCurrency |-> "USD", DefaultLanguage |-> "en",
     DefaultTimezone |-> "UTC"]

\* C15: NewService returns an error and no service exactly when neither the
\* config nor OPENAI_API_KEY gives a key; otherwise the service's
\* configuration has the built-in default in every field left unset and the
\* supplied value in every field that was set.
C15_NewServiceDefaults ==
    cfg.fn = "NewService" =>
        /\ cfg.err # <<>> <=> (cfg.config.APIKey = "" /\ cfg.environ = "")
        /\ cfg.err # <<>> <=> cfg.service = <<>>
        /\ cfg.err = <<>> =>
              /\ \A f \in DOMAIN BuiltInDefaults :
                    GetConfig(svc)[f] = (IF Present(cfg.config, f) THEN cfg.config[f]
                                                                   ELSE BuiltInDefaults[f])
              /\ GetConfig(svc).APIKey = cfg.config.APIKey

\* A service was made with the key of the environment, from a config that
\* sets the currency and the token limit and leaves the rest unset.
C15_Witness ==
    /\ cfg.fn = "NewService"
    /\ cfg.service # <<>>
    /\ cfg.config.APIKey = ""
    /\ cfg.environ = "env-key"
    /\ cfg.config.DefaultCurrency = "JPY"
    /\ cfg.config.DefaultTimezone = ""
    /\ cfg.config.MaxTokens = 2000
    /\ cfg.config.Temperature = 0
    /\ GetConfig(svc).DefaultTimezone = "UTC"
    /\ GetConfig(svc).Temperature = 100
    /\ GetConfig(svc).MaxTokens = 2000

(***************************************************************************)
(* float64 amounts.  A value is [neg, mag]: mag is the magnitude in binary *)
(* fixed point, most significant bit first, with CentBits bits before the  *)
(* point and FracBits after it.  Every amount met here is below 2^CentBits *)
(* / 100 and a multiple of 2^-59, so it is such a number exactly, and a    *)
(* result is rounded to MantissaBits significant bits, to nearest, ties to *)
(* even, as IEEE 754 does.                                                 *)
(***************************************************************************)
CentBits == 12

FracBits == 62

MantissaBits == 53

Width == CentBits + FracBits

\* A function of 1..Width as the tuple of its values.
Tuple(f) == f \o <<>>

ZeroBits == Tuple([i \in 1..Width |-> 0])

\* a + b: bit i takes a carry when a position to its right makes one and
\* every position between passes it on.
AddBits(a, b) ==
    Tuple([i \in 1..Width |->
        LET carry == \E j \in (i + 1)..Width :
                        /\ a[j] = 1 /\ b[j] = 1
                        /\ \A k \in (i + 1)..(j - 1) : a[k] # b[k]
        IN  (a[i] + b[i] + (IF carry THEN 1 ELSE 0)) % 2])

\* a - b, for a not below b: likewise with borrows.
SubBits(a, b) ==
    Tuple([i \in 1..Width |->
        LET borrow == \E j \in (i + 1)..Width :
                         /\ a[j] = 0 /\ b[j] = 1
                         /\ \A k \in (i + 1)..(j - 1) : a[k] = b[k]
        IN  (a[i] + b[i] + (IF borrow THEN 1 ELSE 0)) % 2])

LessBits(a, b) ==
    \E i \in 1..Width : a[i] < b[i] /\ \A j \in 1..(i - 1) : a[j] = b[j]

\* bits, with sticky saying that something below the last bit was dropped,
\* rounded to MantissaBits significant bits.
RoundBits(bits, sticky) ==
    LET set == {i \in 1..Width : bits[i] = 1}
    IN  IF set = {} THEN bits
        ELSE LET first == CHOOSE i \in set : \A j \in set : i <= j
                 last == first + MantissaBits - 1
             IN  IF last >= Width THEN bits
                 ELSE LET kept == Tuple([i \in 1..Width |-> IF i <= last THEN bits[i] ELSE 0])
                          ulp == Tuple([i \in 1..Width |-> IF i = last THEN 1 ELSE 0])
                          rest == sticky \/ \E i \in (last + 2)..Width : bits[i] = 1
                      IN  IF bits[last + 1] = 1 /\ (rest \/ bits[last] = 1)
                            THEN AddBits(kept, ulp)
                            ELSE kept

RECURSIVE Pow2(_)
Pow2(n) == IF n = 0 THEN 1 ELSE 2 * Pow2(n - 1)

\* 2^n modulo d, by squaring.
RECURSIVE Pow2Mod(_, _)
Pow2Mod(n, d) ==
    IF n = 0 THEN 1 % d
    ELSE IF n % 2 = 1 THEN (2 * Pow2Mod(n - 1, d)) % d
    ELSE (Pow2Mod(n \div 2, d) * Pow2Mod(n \div 2, d)) % d

\* The remainder that long division of c * 2^FracBits by d has after the
\* first i of the Width bits of the dividend.
RemBits(c, d, i) ==
    IF i <= CentBits THEN (c \div Pow2(CentBits - i)) % d
                     ELSE ((c % d) * Pow2Mod(i - CentBits, d)) % d

\* The float64 a decimal amount of c hundredths is read as: the quotient of
\* the long division of c * 2^FracBits by 100, rounded.
F64FromCents(c) ==
    LET abs == IF c < 0 THEN -c ELSE c
        n == Tuple([i \in 1..Width |->
                      IF i <= CentBits THEN (abs \div Pow2(CentBits - i)) % 2 ELSE 0])
        q == Tuple([i \in 1..Width |->
                      IF 2 * RemBits(abs, 100, i - 1) + n[i] >= 100 THEN 1 ELSE 0])
    IN  [neg |-> c < 0, mag |-> RoundBits(q, RemBits(abs, 100, Width) # 0)]

F64Zero == [neg |-> FALSE, mag |-> ZeroBits]

F64Neg(x) == IF x.mag = ZeroBits THEN x ELSE [x EXCEPT !.neg = ~@]

\* x + y
F64Add(x, y) ==
    IF x.neg = y.neg
      THEN [neg |-> x.neg, mag |-> RoundBits(AddBits(x.mag, y.mag), FALSE)]
    ELSE IF x.mag = y.mag THEN F64Zero
    ELSE IF LessBits(x.mag, y.mag)
      THEN [neg |-> y.neg, mag |-> RoundBits(SubBits(y.mag, x.mag), FALSE)]
    ELSE [neg |-> x.neg, mag |-> RoundBits(SubBits(x.mag, y.mag), FALSE)]

\* x - y
F64Sub(x, y) == F64Add(x, F64Neg(y))

\* x < y
F64Less(x, y) ==
    IF x.neg # y.neg THEN x.neg
    ELSE IF x.neg THEN LessBits(y.mag, x.mag)
    ELSE LessBits(x.mag, y.mag)

F64Abs(x) == [x EXCEPT !.neg = FALSE]

(***************************************************************************)
(* Receipt records.  A document gives its amounts in hundredths, as the    *)
(* decimal text of the JSON does; the struct holds them as float64.        *)
(***************************************************************************)
\* time.Time: the zero value is January 1, year 1, 00:00:00 UTC.
ZeroTime == [year |-> 1, month |-> 1, day |-> 1, nsec |-> 0]

IsZero(t) == t = ZeroTime

\* The ReceiptData (package openai) a document decodes to.
ReceiptDataOf(doc) ==
    [StoreName |-> doc.store_name,
     ReceiptDate |-> doc.receipt_date,
     TotalAmount |-> F64FromCents(doc.total_amount),
     Currency |-> doc.currency,
     Items |-> doc.items,
     TaxAmount |-> F64FromCents(doc.tax_amount),
     SubtotalAmount |-> F64FromCents(doc.subtotal_amount),
     PaymentMethod |-> doc.payment_method,
     ExpenseCategory |-> doc.expense_category]

\* The ReceiptData (receipt-go) a document decodes to.
ReceiptGoDataOf(doc) ==
    [MerchantName |-> doc.merchant_name,
     Items |-> doc.items,
     Subtotal |-> F64FromCents(doc.subtotal),
     Tax |-> F64FromCents(doc.tax),
     Total |-> F64FromCents(doc.total)]

(***************************************************************************)
(* ReceiptData.Validate and ReceiptData.GetTotalWithoutTax                 *)
(***************************************************************************)
\* Mutant: the amounts have to add up as well.
Validate_ChecksSum(r) ==
    IF r.StoreName = "" THEN <<"store name is required">>
    ELSE IF ~F64Less(F64Zero, r.TotalAmount) THEN <<"total amount must be positive">>
    ELSE IF r.Currency = "" THEN <<"currency is required">>
    ELSE IF IsZero(r.ReceiptDate) THEN <<"receipt date is required">>
    ELSE IF F64Add(r.SubtotalAmount, r.TaxAmount) # r.TotalAmount
      THEN <<"total calculation mismatch">>
    ELSE <<>>

Validate(r) ==
    IF r.StoreName = "" THEN <<"store name is required">>
    ELSE IF ~F64Less(F64Zero, r.TotalAmount) THEN <<"total amount must be positive">>
    ELSE IF r.Currency = "" THEN <<"currency is required">>
    ELSE IF IsZero(r.ReceiptDate) THEN <<"receipt date is required">>
    ELSE <<>>

\* Mutant: the tax is taken off whenever it is known.
GetTotalWithoutTax_TaxFirst(r) ==
    IF F64Less(F64Zero, r.TaxAmount) THEN F64Sub(r.TotalAmount, r.TaxAmount)
    ELSE IF F64Less(F64Zero, r.SubtotalAmount) THEN r.SubtotalAmount
    ELSE r.TotalAmount

GetTotalWithoutTax(r) ==
    IF F64Less(F64Zero, r.SubtotalAmount) THEN r.SubtotalAmount
    ELSE IF F64Less(F64Zero, r.TaxAmount) THEN F64Sub(r.TotalAmount, r.TaxAmount)
    ELSE r.TotalAmount

(***************************************************************************)
(* ValidateReceiptData (receipt-go).  The result is the slice of errors,   *)
(* each a format with its arguments.                                       *)
(***************************************************************************)
MismatchFormat == "total calculation mismatch: subtotal(%.2f) + tax(%.2f) != total(%.2f)"

ValidateReceiptData(d) ==
    LET calculatedTotal == F64Add(d.Subtotal, d.Tax)
        diff == F64Abs(F64Sub(calculatedTotal, d.Total))
    IN  (IF d.MerchantName = "" THEN << <<"merchant name is missing">> >> ELSE <<>>)
        \o (IF ~F64Less(F64Zero, d.Total) THEN << <<"total amount is invalid or missing">> >>
                                         ELSE <<>>)
        \o (IF Len(d.Items) = 0 THEN << <<"no items found in receipt">> >> ELSE <<>>)
        \o (IF F64Less(F64FromCents(5), diff)
              THEN << <<MismatchFormat, d.Subtotal, d.Tax, d.Total>> >>
              ELSE <<>>)

(***************************************************************************)
(* Records: inputs, initial state and steps.                               *)
(***************************************************************************)
Times == {ZeroTime, [year |-> 2024, month |-> 1, day |-> 15, nsec |-> 0]}

ReceiptDocuments ==
    { [store_name |-> n, receipt_date |-> t, total_amount |-> total, currency |-> c,
       items |-> <<>>, tax_amount |-> tax, subtotal_amount |-> sub,
       payment_method |-> "", expense_category |-> ""] :
        n \in {"", "Test Store"}, t \in Times, c \in {"", "USD"},
        total \in {0, 1200, 30, -100}, tax \in {0, 200, 10, -100},
        sub \in {0, 1000, -500} }

ReceiptGoDocuments ==
    { [merchant_name |-> n, items |-> i, subtotal |-> sub, tax |-> tax, total |-> total] :
        n \in {"", "Test Store"},
        i \in {<<>>, <<[Name |-> "Coffee"]>>},
        sub \in {0, 10, 995, 1000}, tax \in {0, 5, 6, 200},
        total \in {0, 10, 1000, 1005, 1006, 1200} }

NoResult == [fn |-> "", value |-> <<>>]

InitRecord ==
    /\ ValidationOff
    /\ ExtractionOff
    /\ ConfigOff
    /\ HandlersOff
    /\ out = NoResult
    /\ \/ \E doc \in ReceiptDocuments :
             record = [type |-> "openai.ReceiptData", doc |-> doc, data |-> ReceiptDataOf(doc)]
       \/ \E doc \in ReceiptGoDocuments :
             record = [type |-> "main.ReceiptData", doc |-> doc, data |-> ReceiptGoDataOf(doc)]

CallValidate ==
    /\ record.type = "openai.ReceiptData"
    /\ out' = [fn |-> "Validate", value |-> Validate(record.data)]
    /\ UNCHANGED record
    /\ UNCHANGED <<valVars, extVars, cfgVars, hdlVars>>

CallGetTotalWithoutTax ==
    /\ record.type = "openai.ReceiptData"
    /\ out' = [fn |-> "GetTotalWithoutTax", value |-> GetTotalWithoutTax(record.data)]
    /\ UNCHANGED record
    /\ UNCHANGED <<valVars, extVars, cfgVars, hdlVars>>

CallValidateReceiptData ==
    /\ record.type = "main.ReceiptData"
    /\ out' = [fn |-> "ValidateReceiptData", value |-> ValidateReceiptData(record.data)]
    /\ UNCHANGED record
    /\ UNCHANGED <<valVars, extVars, cfgVars, hdlVars>>

NextRecord ==
    \/ CallValidate
    \/ CallGetTotalWithoutTax
    \/ CallValidateReceiptData

SpecRecord == InitRecord /\ [][NextRecord]_vars

(***************************************************************************)
(* Properties of the records.                                              *)
(***************************************************************************)
\* C16: GetTotalWithoutTax returns the subtotal if it is positive, else the
\* total less the tax if the tax is positive, else the total (10 for
\* {10, 2, 12} and for {0, 2, 12}, 12 for {0, 0, 12}), and leaves the record
\* as it was.
C16_TotalWithoutTax ==
    [][ out'.fn = "GetTotalWithoutTax" =>
          /\ record' = record
          /\ out'.value =
                (IF record.doc.subtotal_amount > 0 THEN record.data.SubtotalAmount
                 ELSE IF record.doc.tax_amount > 0
                   THEN F64Sub(record.data.TotalAmount, record.data.TaxAmount)
                 ELSE record.data.TotalAmount)
          /\ (record.doc.total_amount = 1200 /\ record.doc.tax_amount = 200
                /\ record.doc.subtotal_amount \in {0, 1000}) =>
                out'.value = F64FromCents(1000)
          /\ (record.doc.total_amount = 1200 /\ record.doc.tax_amount = 0
                /\ record.doc.subtotal_amount = 0) =>
                out'.value = F64FromCents(1200) ]_vars

\* The total less the tax was returned for a record without a subtotal.
C16_Witness ==
    /\ out.fn = "GetTotalWithoutTax"
    /\ record.doc.subtotal_amount = 0
    /\ record.doc.tax_amount = 200
    /\ record.doc.total_amount = 1200
    /\ out.value = F64FromCents(1000)

MismatchReported == \E i \in 1..Len(out.value) : out.value[i][1] = MismatchFormat

\* The distance of subtotal + tax from the total, in hundredths.
MismatchCents ==
    IF record.doc.subtotal + record.doc.tax >= record.doc.total
      THEN record.doc.subtotal + record.doc.tax - record.doc.total
      ELSE record.doc.total - record.doc.subtotal - record.doc.tax

\* C18: ValidateReceiptData reports the calculation mismatch exactly when
\* subtotal + tax is more than 0.05 away from the total.
C18_MismatchBeyondFiveCents ==
    out.fn = "ValidateReceiptData" => (MismatchReported <=> MismatchCents > 5)

\* The same for the records whose distance is not 0.05 itself.
MismatchAwayFromFiveCents ==
    (out.fn = "ValidateReceiptData" /\ MismatchCents # 5) =>
        (MismatchReported <=> MismatchCents > 5)

(***************************************************************************)
(* SheetsService.formatReceiptRow.  A cell is an interface{} value: its    *)
(* dynamic type and its value.  A string built by the function is the      *)
(* sequence of its parts (<<>> is ""); Korean literals are written as      *)
(* their code points.                                                      *)
(***************************************************************************)
Cell(type, value) == [type |-> type, value |-> value]

DigitChar(n) ==
    CASE n = 0 -> "0" [] n = 1 -> "1" [] n = 2 -> "2" [] n = 3 -> "3" [] n = 4 -> "4"
      [] n = 5 -> "5" [] n = 6 -> "6" [] n = 7 -> "7" [] n = 8 -> "8" [] n = 9 -> "9"

\* Mutant: the day is written first.
FormatDate_DayFirst(t) ==
    << DigitChar((t.day \div 10) % 10), DigitChar(t.day % 10), "-",
       DigitChar((t.month \div 10) % 10), DigitChar(t.month % 10), "-",
       DigitChar((t.year \div 1000) % 10), DigitChar((t.year \div 100) % 10),
       DigitChar((t.year \div 10) % 10), DigitChar(t.year % 10) >>

\* t.Format("2006-01-02")
FormatDate(t) ==
    << DigitChar((t.year \div 1000) % 10), DigitChar((t.year \div 100) % 10),
       DigitChar((t.year \div 10) % 10), DigitChar(t.year % 10), "-",
       DigitChar((t.month \div 10) % 10), DigitChar(t.month % 10), "-",
       DigitChar((t.day \div 10) % 10), DigitChar(t.day % 10) >>

\* Mutant: the items without a name are kept.
ItemNames_KeepsEmpty(items) == Tuple([i \in 1..Len(items) |-> items[i].Name])

\* The names of the items that have one, in order.
RECURSIVE ItemNames(_)
ItemNames(items) ==
    IF items = <<>> THEN <<>>
    ELSE (IF Head(items).Name # "" THEN <<Head(items).Name>> ELSE <<>>)
            \o ItemNames(Tail(items))

\* names[1] + ", " + names[2] + ...
RECURSIVE JoinNames(_)
JoinNames(names) ==
    IF names = <<>> THEN <<>>
    ELSE IF Len(names) = 1 THEN names
    ELSE JoinNames(SubSeq(names, 1, Len(names) - 1)) \o <<", ", names[Len(names)]>>

Uncategorized == "U+BBF8 U+BD84 U+B958"

UnknownPayment == "U+C54C U+0020 U+C218 U+0020 U+C5C6 U+C74C"

\* Mutant: the amount is written out as text.
TotalAmountCell_Formatted(data) ==
    IF data # <<>> /\ F64Less(F64Zero, data[1].TotalAmount)
      THEN Cell("string", <<"%.2f", data[1].TotalAmount>>)
      ELSE Cell("string", "")

\* totalAmount: a string (empty) or a float64 (number).
TotalAmountCell(data) ==
    IF data # <<>> /\ F64Less(F64Zero, data[1].TotalAmount)
      THEN Cell("float64", data[1].TotalAmount)
      ELSE Cell("string", "")

\* Mutant: the store comes before the category.
formatReceiptRow_StoreFirst(data, receiptURL, memo) ==
    LET date == IF data # <<>> /\ ~IsZero(data[1].ReceiptDate)
                  THEN FormatDate(data[1].ReceiptDate) ELSE <<>>
        category == IF data = <<>> THEN ""
                    ELSE IF data[1].ExpenseCategory # "" THEN data[1].ExpenseCategory
                    ELSE Uncategorized
        storeName == IF data # <<>> THEN data[1].StoreName ELSE ""
        itemCount == IF data # <<>> THEN Len(data[1].Items) ELSE 0
        itemsSummary == IF data # <<>> THEN JoinNames(ItemNames(data[1].Items)) ELSE <<>>
        paymentMethod == IF data = <<>> THEN ""
                         ELSE IF data[1].PaymentMethod # "" THEN data[1].PaymentMethod
                         ELSE UnknownPayment
    IN  << Cell("string", date), Cell("string", storeName), Cell("string", category),
           TotalAmountCell(data), Cell("int", itemCount), Cell("string", itemsSummary),
           Cell("string", paymentMethod), Cell("string", receiptURL), Cell("string", memo) >>

\* data is the pointer: <<>> is nil.
formatReceiptRow(data, receiptURL, memo) ==
    LET date == IF data # <<>> /\ ~IsZero(data[1].ReceiptDate)
                  THEN FormatDate(data[1].ReceiptDate) ELSE <<>>
        category == IF data = <<>> THEN ""
                    ELSE IF data[1].ExpenseCategory # "" THEN data[1].ExpenseCategory
                    ELSE Uncategorized
        storeName == IF data # <<>> THEN data[1].StoreName ELSE ""
        itemCount == IF data # <<>> THEN Len(data[1].Items) ELSE 0
        itemsSummary == IF data # <<>> THEN JoinNames(ItemNames(data[1].Items)) ELSE <<>>
        paymentMethod == IF data = <<>> THEN ""
                         ELSE IF data[1].PaymentMethod # "" THEN data[1].PaymentMethod
                         ELSE UnknownPayment
    IN  << Cell("string", date), Cell("string", category), Cell("string", storeName),
           TotalAmountCell(data), Cell("int", itemCount), Cell("string", itemsSummary),
           Cell("string", paymentMethod), Cell("string", receiptURL), Cell("string", memo) >>

\* The header row of InitializeSpreadsheet.
Headers ==
    << "U+B0A0 U+C9DC", "U+CE74 U+D14C U+ACE0 U+B9AC", "U+C0C1 U+C810 U+BA85",
       "U+CD1D U+AE08 U+C561", "U+D56D U+BAA9 U+C218", "U+D56D U+BAA9 U+B0B4 U+C5ED",
       "U+ACB0 U+C81C U+BC29 U+BC95", "U+C601 U+C218 U+C99D U+B9C1 U+D06C", "U+BA54 U+BAA8" >>

(***************************************************************************)
(* Spreadsheet rows: inputs, initial state and steps.                      *)
(***************************************************************************)
ItemInputs ==
    { <<>>, <<[Name |-> "Coffee"]>>, <<[Name |-> ""]>>,
      <<[Name |-> "Coffee"], [Name |-> ""], [Name |-> "Water"]>> }

SheetDocuments ==
    { [store_name |-> n, receipt_date |-> t, total_amount |-> total, currency |-> "JPY",
       items |-> i, tax_amount |-> 0, subtotal_amount |-> 0,
       payment_method |-> pm, expense_category |-> cat] :
        n \in {"", "Test Store"},
        t \in Times \cup {[year |-> 1, month |-> 1, day |-> 1, nsec |-> 1]},
        total \in {0, 1, 1250, -100}, i \in ItemInputs, pm \in {"", "Cash"},
        cat \in {"", "food"} }

InitSheets ==
    /\ ValidationOff
    /\ ExtractionOff
    /\ ConfigOff
    /\ HandlersOff
    /\ out = NoResult
    /\ \E receiptURL \in {"", "https://s3.example.com/receipt.jpg"}, memo \in {"", "Test memo"} :
          \/ record = [type |-> "row", doc |-> <<>>, data |-> <<>>,
                       receiptURL |-> receiptURL, memo |-> memo]
          \/ \E doc \in SheetDocuments :
                record = [type |-> "row", doc |-> <<doc>>, data |-> <<ReceiptDataOf(doc)>>,
                          receiptURL |-> receiptURL, memo |-> memo]

CallFormatReceiptRow ==
    /\ record.type = "row"
    /\ out.fn = ""
    /\ out' = [fn |-> "formatReceiptRow",
               value |-> formatReceiptRow(record.data, record.receiptURL, record.memo)]
    /\ UNCHANGED record
    /\ UNCHANGED <<valVars, extVars, cfgVars, hdlVars>>

NextSheets == CallFormatReceiptRow

SpecSheets == InitSheets /\ [][NextSheets]_vars

(***************************************************************************)
(* Properties of the spreadsheet rows.                                     *)
(***************************************************************************)
\* The columns, in the order claimed.
Columns ==
    << "date", "category", "storeName", "totalAmount", "itemCount", "itemsSummary",
       "paymentMethod", "externalLink", "memo" >>

\* What each header of the sheet says its column holds.
ColumnOfHeader ==
    [h \in {Headers[i] : i \in 1..Len(Headers)} |->
        CASE h = "U+B0A0 U+C9DC" -> "date"
          [] h = "U+CE74 U+D14C U+ACE0 U+B9AC" -> "category"
          [] h = "U+C0C1 U+C810 U+BA85" -> "storeName"
          [] h = "U+CD1D U+AE08 U+C561" -> "totalAmount"
          [] h = "U+D56D U+BAA9 U+C218" -> "itemCount"
          [] h = "U+D56D U+BAA9 U+B0B4 U+C5ED" -> "itemsSummary"
          [] h = "U+ACB0 U+C81C U+BC29 U+BC95" -> "paymentMethod"
          [] h = "U+C601 U+C218 U+C99D U+B9C1 U+D06C" -> "externalLink"
          [] h = "U+BA54 U+BAA8" -> "memo"]

\* The value a column holds for the record and the arguments of the call.
ValueOfColumn(column) ==
    LET d == record.data
    IN  CASE column = "date" ->
               IF d # <<>> /\ ~IsZero(d[1].ReceiptDate) THEN FormatDate(d[1].ReceiptDate)
                                                         ELSE <<>>
          [] column = "category" ->
               IF d = <<>> THEN "" ELSE IF d[1].ExpenseCategory # "" THEN d[1].ExpenseCategory
               ELSE Uncategorized
          [] column = "storeName" -> IF d = <<>> THEN "" ELSE d[1].StoreName
          [] column = "totalAmount" ->
               IF d # <<>> /\ record.doc[1].total_amount > 0 THEN d[1].TotalAmount ELSE ""
          [] column = "itemCount" -> IF d = <<>> THEN 0 ELSE Len(d[1].Items)
          [] column = "itemsSummary" ->
               IF d = <<>> THEN <<>> ELSE JoinNames(ItemNames(d[1].Items))
          [] column = "paymentMethod" ->
               IF d = <<>> THEN "" ELSE IF d[1].PaymentMethod # "" THEN d[1].PaymentMethod
               ELSE UnknownPayment
          [] column = "externalLink" -> record.receiptURL
          [] column = "memo" -> record.memo

NilRecordRow ==
    /\ out.fn = "formatReceiptRow"
    /\ record.data = <<>>
    /\ Len(out.value) = 9

\* C20: the totalAmount cell is a float64 equal to TotalAmount when
\* TotalAmount > 0 and the empty string otherwise, never another string.
C20_TotalIsNumberOrBlank ==
    out.fn = "formatReceiptRow" =>
        IF record.data # <<>> /\ record.doc[1].total_amount > 0
          THEN /\ out.value[4].type = "float64"
               /\ out.value[4].value = F64FromCents(record.doc[1].total_amount)
          ELSE /\ out.value[4].type = "string"
               /\ out.value[4].value = ""

\* The amount of a record was written as a number.
C20_Witness ==
    /\ out.fn = "formatReceiptRow"
    /\ record.data # <<>>
    /\ record.doc[1].total_amount = 1250
    /\ out.value[4].type = "float64"
    /\ out.value[4].value = record.data[1].TotalAmount

\* The names of the items of the call, the empty ones left out.
NamesLeft ==
    IF record.data = <<>> THEN <<>>
    ELSE SelectSeq(Tuple([i \in 1..Len(record.doc[1].items) |-> record.doc[1].items[i].Name]),
                   LAMBDA n : n # "")

\* The names left with ", " between each two of them.
NamesWithCommas ==
    Tuple([i \in 1..(IF NamesLeft = <<>> THEN 0 ELSE 2 * Len(NamesLeft) - 1) |->
              IF i % 2 = 1 THEN NamesLeft[(i + 1) \div 2] ELSE ", "])

\* C21: itemCount is the int count of all the items, the nameless ones
\* included, and itemsSummary is the non-empty names in their order joined
\* by ", ", the empty string when none is left.
C21_ItemCountAndSummary ==
    (out.fn = "formatReceiptRow" /\ record.data # <<>>) =>
        /\ out.value[5] = Cell("int", Len(record.doc[1].items))
        /\ out.value[6].type = "string"
        /\ out.value[6].value = NamesWithCommas

\* Coffee, "", Water gave "Coffee, Water" with count 3.
C21_Witness ==
    /\ out.fn = "formatReceiptRow"
    /\ record.data # <<>>
    /\ record.doc[1].items = <<[Name |-> "Coffee"], [Name |-> ""], [Name |-> "Water"]>>
    /\ out.value[5].value = 3
    /\ out.value[6].value = <<"Coffee", ", ", "Water">>

\* Only nameless items: the count is 1 and the summary is empty.
NamelessItemsRow ==
    /\ out.fn = "formatReceiptRow"
    /\ record.data # <<>>
    /\ record.doc[1].items = <<[Name |-> ""]>>
    /\ out.value[5].value = 1
    /\ out.value[6].value = <<>>

\* The YYYY-MM-DD text of the receipt dates of the calls.
DateText(t) ==
    CASE t = [year |-> 2024, month |-> 1, day |-> 15, nsec |-> 0] ->
            <<"2", "0", "2", "4", "-", "0", "1", "-", "1", "5">>
      [] t = [year |-> 1, month |-> 1, day |-> 1, nsec |-> 1] ->
            <<"0", "0", "0", "1", "-", "0", "1", "-", "0", "1">>

\* C22: for a record, the date cell is "" when the timestamp is zero and
\* YYYY-MM-DD otherwise, the category cell is the category or the
\* uncategorized sentinel, the paymentMethod cell is the value or the unknown
\* sentinel; for the nil record every derived cell is its empty or zero
\* default.
C22_DerivedCells ==
    out.fn = "formatReceiptRow" =>
        IF record.data # <<>>
          THEN LET doc == record.doc[1]
               IN  /\ out.value[1].type = "string"
                   /\ out.value[1].value =
                         IF doc.receipt_date = [year |-> 1, month |-> 1, day |-> 1, nsec |-> 0]
                           THEN <<>> ELSE DateText(doc.receipt_date)
                   /\ out.value[2] = Cell("string", IF doc.expense_category # ""
                                                    THEN doc.expense_category
                                                    ELSE "U+BBF8 U+BD84 U+B958")
                   /\ out.value[7] = Cell("string", IF doc.payment_method # ""
                                                    THEN doc.payment_method
                                                    ELSE "U+C54C U+0020 U+C218 U+0020 U+C5C6 U+C74C")
          ELSE /\ out.value[1] = Cell("string", <<>>)
               /\ out.value[2] = Cell("string", "")
               /\ out.value[3] = Cell("string", "")
               /\ out.value[4] = Cell("string", "")
               /\ out.value[5] = Cell("int", 0)
               /\ out.value[6] = Cell("string", <<>>)
               /\ out.value[7] = Cell("string", "")

\* A dated record without category and payment method was formatted.
C22_Witness ==
    /\ out.fn = "formatReceiptRow"
    /\ record.data # <<>>
    /\ record.doc[1].receipt_date.year = 2024
    /\ record.doc[1].expense_category = ""
    /\ record.doc[1].payment_method = ""
    /\ out.value[1].value = <<"2", "0", "2", "4", "-", "0", "1", "-", "1", "5">>
    /\ out.value[2].value = Uncategorized
    /\ out.value[7].value = UnknownPayment

(***************************************************************************)
(* ReceiptData.ToJSON and FromJSON (encoding/json).  A Go string is the    *)
(* sequence of its bytes.  A float64 is [class, bits]: class "finite" with *)
(* the bits of the value, or "NaN" or "+Inf".  A JSON text is the sequence *)
(* of its members <<key, value>>, the value tagged with its JSON kind; a   *)
(* JSON string is the sequence of its characters, written literally or as  *)
(* an escape.                                                              *)
(***************************************************************************)
Finite(bits) == [class |-> "finite", bits |-> bits]

NotFinite(class) == [class |-> class, bits |-> F64Zero]

\* Bytes below 0x80 are characters of their own; 0xFF starts no character.
ValidByte(b) == b < 128

\* encoding/json writes '"' as a backslash escape, '<' as U+003C and an invalid
\* byte as U+FFFD, both in the \u form.
EncodeByte(b) ==
    IF ~ValidByte(b) THEN [kind |-> "u", code |-> 65533]
    ELSE IF b = 34 THEN [kind |-> "esc", code |-> 34]
    ELSE IF b = 60 THEN [kind |-> "u", code |-> 60]
    ELSE [kind |-> "lit", code |-> b]

EncodeString(str) == Tuple([i \in 1..Len(str) |-> EncodeByte(str[i])])

\* The UTF-8 bytes of a code point below 0x10000.
UTF8(code) ==
    IF code < 128 THEN <<code>>
    ELSE IF code < 2048 THEN <<192 + (code \div 64), 128 + (code % 64)>>
    ELSE <<224 + (code \div 4096), 128 + ((code \div 64) % 64), 128 + (code % 64)>>

DecodeChar(c) == IF c.kind = "u" THEN UTF8(c.code) ELSE <<c.code>>

RECURSIVE UnquoteString(_)
UnquoteString(chars) ==
    IF chars = <<>> THEN <<>> ELSE DecodeChar(Head(chars)) \o UnquoteString(Tail(chars))

\* The amounts, in hundredths, of the records.
AmountInputs == {0, 1, 1250, 1200, -100}

\* strconv.AppendFloat(f, 'f', -1, 64): the shortest decimal that parses
\* back to f; for an amount it has at most two decimals.
ShortestCents(bits) == CHOOSE c \in AmountInputs : F64FromCents(c) = bits

Abs(n) == IF n < 0 THEN -n ELSE n

\* The decimal of c hundredths without trailing zeros.
DecimalOf(c) ==
    [neg |-> c < 0, whole |-> Abs(c) \div 100,
     frac |-> IF Abs(c) % 100 = 0 THEN <<>>
              ELSE IF Abs(c) % 10 = 0 THEN <<(Abs(c) % 100) \div 10>>
              ELSE <<(Abs(c) % 100) \div 10, Abs(c) % 10>>]

EncodeFloat(f) == [t |-> "number", text |-> DecimalOf(ShortestCents(f.bits))]

\* strconv.ParseFloat of the number.
DecodeFloat(v) ==
    LET text == v.text
        hundredths == text.whole * 100
                        + (IF Len(text.frac) >= 1 THEN text.frac[1] * 10 ELSE 0)
                        + (IF Len(text.frac) >= 2 THEN text.frac[2] ELSE 0)
    IN  Finite(F64FromCents(IF text.neg THEN -hundredths ELSE hundredths))

\* Time.MarshalJSON: RFC 3339 with nanoseconds; the year must be in [0,9999].
MarshalTime(t) ==
    IF t.year < 0 \/ t.year > 9999
      THEN [text |-> <<>>, err |-> <<"Time.MarshalJSON: year outside of range [0,9999]">>]
      ELSE [text |-> FormatDate(t) \o <<"T00:00:00">>
                        \o (IF t.nsec = 0 THEN <<>> ELSE <<".", t.nsec>>) \o <<"Z">>,
            err |-> <<>>]

CharDigit(c) == CHOOSE n \in 0..9 : DigitChar(n) = c

\* Time.UnmarshalJSON of a text MarshalTime wrote.
UnmarshalTime(text) ==
    [year |-> CharDigit(text[1]) * 1000 + CharDigit(text[2]) * 100
                + CharDigit(text[3]) * 10 + CharDigit(text[4]),
     month |-> CharDigit(text[6]) * 10 + CharDigit(text[7]),
     day |-> CharDigit(text[9]) * 10 + CharDigit(text[10]),
     nsec |-> IF text[12] = "." THEN text[13] ELSE 0]

EncodeItem(item) == <<<<"name", [t |-> "string", chars |-> EncodeString(item.Name)]>>>>

\* A nil slice is written as null.
EncodeItems(items) ==
    IF items.nil THEN [t |-> "null"]
    ELSE [t |-> "array",
          elems |-> Tuple([i \in 1..Len(items.elems) |-> EncodeItem(items.elems[i])])]

\* json.Marshal(r): the members in the order of the fields, the omitempty
\* ones left out when zero; an error for a value JSON cannot hold.
Marshal(r) ==
    LET time == MarshalTime(r.ReceiptDate)
    IN  IF time.err # <<>> THEN [text |-> <<>>, err |-> <<"json: error calling MarshalJSON for type time.Time">> \o time.err]
        ELSE IF r.TotalAmount.class # "finite"
          THEN [text |-> <<>>, err |-> <<"json: unsupported value: ", r.TotalAmount.class>>]
        ELSE IF r.TaxAmount.class # "finite"
          THEN [text |-> <<>>, err |-> <<"json: unsupported value: ", r.TaxAmount.class>>]
        ELSE [text |->
                 << <<"store_name", [t |-> "string", chars |-> EncodeString(r.StoreName)]>>,
                    <<"receipt_date", [t |-> "time", text |-> time.text]>>,
                    <<"total_amount", EncodeFloat(r.TotalAmount)>>,
                    <<"currency", [t |-> "string", chars |-> EncodeString(r.Currency)]>>,
                    <<"items", EncodeItems(r.Items)>> >>
                 \o (IF r.TaxAmount.bits.mag = ZeroBits THEN <<>>
                     ELSE << <<"tax_amount", EncodeFloat(r.TaxAmount)>> >>)
                 \o (IF r.PaymentMethod = <<>> THEN <<>>
                     ELSE << <<"payment_method",
                               [t |-> "string", chars |-> EncodeString(r.PaymentMethod)]>> >>),
              err |-> <<>>]

ToJSON(r) ==
    LET m == Marshal(r)
    IN  IF m.err # <<>> THEN [str |-> <<>>, err |-> <<"failed to marshal to JSON: ">> \o m.err]
        ELSE [str |-> m.text, err |-> <<>>]

HasMember(text, key) == \E i \in 1..Len(text) : text[i][1] = key

Member(text, key) == text[CHOOSE i \in 1..Len(text) : text[i][1] = key][2]

DecodeItem(text) ==
    [Name |-> IF HasMember(text, "name") THEN UnquoteString(Member(text, "name").chars) ELSE <<>>]

DecodeItems(v) ==
    IF v.t = "null" THEN [nil |-> TRUE, elems |-> <<>>]
    ELSE [nil |-> FALSE, elems |-> Tuple([i \in 1..Len(v.elems) |-> DecodeItem(v.elems[i])])]

\* json.Unmarshal into a zero ReceiptData: a member sets its field, a field
\* without member stays zero.
Unmarshal(text) ==
    [StoreName |-> IF HasMember(text, "store_name")
                     THEN UnquoteString(Member(text, "store_name").chars) ELSE <<>>,
     ReceiptDate |-> IF HasMember(text, "receipt_date")
                       THEN UnmarshalTime(Member(text, "receipt_date").text) ELSE ZeroTime,
     TotalAmount |-> IF HasMember(text, "total_amount")
                       THEN DecodeFloat(Member(text, "total_amount")) ELSE Finite(F64Zero),
     Currency |-> IF HasMember(text, "currency")
                    THEN UnquoteString(Member(text, "currency").chars) ELSE <<>>,
     Items |-> IF HasMember(text, "items") THEN DecodeItems(Member(text, "items"))
               ELSE [nil |-> TRUE, elems |-> <<>>],
     TaxAmount |-> IF HasMember(text, "tax_amount")
                     THEN DecodeFloat(Member(text, "tax_amount")) ELSE Finite(F64Zero),
     PaymentMethod |-> IF HasMember(text, "payment_method")
                         THEN UnquoteString(Member(text, "payment_method").chars) ELSE <<>>]

\* The texts ToJSON writes always parse.
FromJSON(str) == [data |-> <<Unmarshal(str)>>, err |-> <<>>]

(***************************************************************************)
(* JSON round trips: inputs, initial state and steps.                      *)
(***************************************************************************)
\* "", "A", a quote, "<", a byte that is not UTF-8.
StringInputs == {<<>>, <<65>>, <<65, 34>>, <<60>>, <<255>>}

FloatInputs ==
    {Finite(F64FromCents(c)) : c \in AmountInputs} \cup {NotFinite("NaN"), NotFinite("+Inf")}

TimeInputs ==
    Times \cup {[year |-> 2024, month |-> 12, day |-> 31, nsec |-> 5],
                [year |-> 10000, month |-> 1, day |-> 1, nsec |-> 0]}

SliceInputs ==
    {[nil |-> TRUE, elems |-> <<>>], [nil |-> FALSE, elems |-> <<>>],
     [nil |-> FALSE, elems |-> <<[Name |-> <<65>>], [Name |-> <<>>]>>]}

JSONRecords ==
    { [StoreName |-> n, ReceiptDate |-> t, TotalAmount |-> total, Currency |-> <<65>>,
       Items |-> i, TaxAmount |-> tax, PaymentMethod |-> pm] :
        n \in StringInputs, t \in TimeInputs, total \in FloatInputs, i \in SliceInputs,
        tax \in {Finite(F64Zero), Finite(F64FromCents(1250))}, pm \in {<<>>, <<65>>} }

InitJSON ==
    /\ ValidationOff
    /\ ExtractionOff
    /\ ConfigOff
    /\ HandlersOff
    /\ out = NoResult
    /\ \E r \in JSONRecords : record = [type |-> "json", data |-> r]

CallToJSON ==
    /\ record.type = "json"
    /\ out.fn = ""
    /\ out' = [fn |-> "ToJSON", value |-> ToJSON(record.data)]
    /\ UNCHANGED record
    /\ UNCHANGED <<valVars, extVars, cfgVars, hdlVars>>

CallFromJSON ==
    /\ record.type = "json"
    /\ out.fn = "ToJSON"
    /\ out.value.err = <<>>
    /\ out' = [fn |-> "FromJSON", value |-> FromJSON(out.value.str)]
    /\ UNCHANGED record
    /\ UNCHANGED <<valVars, extVars, cfgVars, hdlVars>>

NextJSON == CallToJSON \/ CallFromJSON

SpecJSON == InitJSON /\ [][NextJSON]_vars

(***************************************************************************)
(* Properties of the JSON round trip.                                      *)
(***************************************************************************)
\* C23: for every record, ToJSON succeeds, FromJSON of its text succeeds and
\* the record it yields equals the original.
C23_RoundTrip ==
    /\ out.fn = "ToJSON" => out.value.err = <<>>
    /\ out.fn = "FromJSON" => out.value.err = <<>> /\ out.value.data = <<record.data>>

\* The records JSON can hold: finite numbers, a year in [0,9999], strings of
\* valid UTF-8.
Encodable(r) ==
    /\ r.TotalAmount.class = "finite"
    /\ r.TaxAmount.class = "finite"
    /\ r.ReceiptDate.year \in 0..9999
    /\ \A str \in {r.StoreName, r.Currency, r.PaymentMethod} :
          \A i \in 1..Len(str) : ValidByte(str[i])

\* The round trip of the records JSON can hold.
RoundTripOfEncodableRecords ==
    Encodable(record.data) =>
        /\ out.fn = "ToJSON" => out.value.err = <<>>
        /\ out.fn = "FromJSON" => out.value.err = <<>> /\ out.value.data = <<record.data>>

\* A record with a quote, nanoseconds, an amount and items came back equal.
RoundTripHappened ==
    /\ out.fn = "FromJSON"
    /\ record.data.StoreName = <<65, 34>>
    /\ record.data.ReceiptDate.nsec = 5
    /\ record.data.TotalAmount = Finite(F64FromCents(1250))
    /\ Len(record.data.Items.elems) = 2
    /\ out.value.data = <<record.data>>

(***************************************************************************)
(* Agreement of the two validation paths.                                  *)
(***************************************************************************)
\* C30: for a byte buffer b, ValidateBase64ImageForOpenAI of the standard
\* base64 encoding of b succeeds exactly when ValidateImageForOpenAI(b)
\* succeeds, and when they fail they report the same field.
C30_RawAndBase64Agree ==
    (stage = "encoded" /\ ret.fn = "ValidateBase64ImageForOpenAI") =>
        /\ ret.err = NilError <=> ValidateImageForOpenAI(imageData) = NilError
        /\ ret.err.Field = ValidateImageForOpenAI(imageData).Field

\* The encoding of a WEBP file of the largest size passed.
C30_Witness ==
    /\ stage = "encoded"
    /\ ret.fn = "ValidateBase64ImageForOpenAI"
    /\ BufLen(imageData) = MaxImageSizeBytes
    /\ isWEBP(imageData)
    /\ ret.err = NilError

\* The two paths failed alike on each field.
BothPathsFailed(field) ==
    /\ stage = "encoded"
    /\ ret.fn = "ValidateBase64ImageForOpenAI"
    /\ ret.err.Field = field
    /\ ValidateImageForOpenAI(imageData).Field = field

BothFailedOnData == BothPathsFailed("image_data")

BothFailedOnSize == BothPathsFailed("image_size")

BothFailedOnFormat == BothPathsFailed("image_format") /\ BufLen(imageData) >= 12

(***************************************************************************)
(* SheetsService.InitializeSpreadsheet.  The sheet is the sequence of its  *)
(* rows, a row the sequence of its cells.  handler holds the call: where   *)
(* it is (pc), its locals values and err, and what it returned.            *)
(***************************************************************************)
\* headers, as the row of cells handed to AppendRow.
HeaderRow == Tuple([i \in 1..Len(Headers) |-> Cell("string", Headers[i])])

\* What ReadRange returns for A1:I1: the first row, when it has cells.
FirstRowValues(rows) == IF rows = <<>> \/ rows[1] = <<>> THEN <<>> ELSE <<rows[1]>>

\* len(values) == 0 || len(values[0]) == 0
HeadersNeeded(values) == Len(values) = 0 \/ Len(values[1]) = 0

\* InitializeSpreadsheet once ReadRange has returned values and err: err is
\* logged only.
InitializeSpreadsheet_Read(values, e) ==
    IF HeadersNeeded(values)
      THEN [handler EXCEPT !.pc = "append", !.values = values, !.err = e]
      ELSE [handler EXCEPT !.pc = "idle", !.values = values, !.err = e, !.returned = <<>>]

(***************************************************************************)
(* Initialization of the spreadsheet: inputs, initial state and steps.     *)
(***************************************************************************)
MaxInitCalls == 3

\* A row of a receipt, as formatReceiptRow makes it.
DataRow ==
    formatReceiptRow(<<ReceiptDataOf(
        [store_name |-> "Test Store", receipt_date |-> ZeroTime, total_amount |-> 1250,
         currency |-> "JPY", items |-> <<>>, tax_amount |-> 0, subtotal_amount |-> 0,
         payment_method |-> "", expense_category |-> ""])>>, "", "")

SheetInputs == {<<>>, <<HeaderRow>>, <<HeaderRow, DataRow>>, <<DataRow>>}

InitInitialize ==
    /\ ValidationOff
    /\ ExtractionOff
    /\ ConfigOff
    /\ RecordsOff
    /\ sheet \in SheetInputs
    /\ \E repo \in BOOLEAN :
          handler = [fn |-> "InitializeSpreadsheet", sheetsRepo |-> repo, pc |-> "idle",
                     calls |-> 0, values |-> <<>>, err |-> <<>>, returned |-> <<>>]

CallInitializeSpreadsheet ==
    /\ handler.fn = "InitializeSpreadsheet"
    /\ handler.pc = "idle"
    /\ handler.calls < MaxInitCalls
    /\ handler' = IF ~handler.sheetsRepo
                    THEN [handler EXCEPT !.calls = @ + 1, !.values = <<>>, !.err = <<>>,
                                         !.returned = <<"sheets repository not initialized">>]
                    ELSE [handler EXCEPT !.calls = @ + 1, !.pc = "read", !.values = <<>>,
                                         !.err = <<>>, !.returned = <<>>]
    /\ UNCHANGED sheet
    /\ UNCHANGED <<valVars, extVars, cfgVars, recVars>>

ReadRangeReturns ==
    /\ handler.fn = "InitializeSpreadsheet"
    /\ handler.pc = "read"
    /\ handler' = InitializeSpreadsheet_Read(FirstRowValues(sheet), <<>>)
    /\ UNCHANGED sheet
    /\ UNCHANGED <<valVars, extVars, cfgVars, recVars>>

ReadRangeFails ==
    /\ handler.fn = "InitializeSpreadsheet"
    /\ handler.pc = "read"
    /\ handler' = InitializeSpreadsheet_Read(<<>>, <<"failed to read range: ", "timeout">>)
    /\ UNCHANGED sheet
    /\ UNCHANGED <<valVars, extVars, cfgVars, recVars>>

AppendHeadersSucceeds ==
    /\ handler.fn = "InitializeSpreadsheet"
    /\ handler.pc = "append"
    /\ sheet' = Append(sheet, HeaderRow)
    /\ handler' = [handler EXCEPT !.pc = "idle", !.returned = <<>>]
    /\ UNCHANGED <<valVars, extVars, cfgVars, recVars>>

AppendHeadersFails ==
    /\ handler.fn = "InitializeSpreadsheet"
    /\ handler.pc = "append"
    /\ handler' = [handler EXCEPT !.pc = "idle",
                     !.returned = <<"failed to add headers: ", "failed to append row: ", "timeout">>]
    /\ UNCHANGED sheet
    /\ UNCHANGED <<valVars, extVars, cfgVars, recVars>>

NextInitialize ==
    \/ CallInitializeSpreadsheet
    \/ ReadRangeReturns
    \/ ReadRangeFails
    \/ AppendHeadersSucceeds
    \/ AppendHeadersFails

SpecInitialize == InitInitialize /\ [][NextInitialize]_vars

(***************************************************************************)
(* Properties of the initialization of the spreadsheet.                    *)
(***************************************************************************)
HeaderRowsOf(rows) == Cardinality({i \in 1..Len(rows) : rows[i] = HeaderRow})

\* C28: InitializeSpreadsheet never appends the headers to a sheet whose
\* first row is non-empty, so after any number of calls the sheet holds at
\* most one header row.
C28_HeadersAtMostOnce ==
    [][(sheet' # sheet => FirstRowValues(sheet) = <<>>) /\ HeaderRowsOf(sheet') <= 1]_vars

\* The headers are appended to a sheet with a first row only in a call whose
\* ReadRange failed.
HeadersAgainOnlyAfterFailedRead ==
    [][(sheet' # sheet /\ FirstRowValues(sheet) # <<>>) => handler.err # <<>>]_vars

\* A second call found the headers of the first and left the sheet alone.
HeadersSkipped ==
    /\ handler.fn = "InitializeSpreadsheet"
    /\ handler.calls = 2
    /\ handler.pc = "idle"
    /\ handler.values = <<HeaderRow>>
    /\ sheet = <<HeaderRow>>

(***************************************************************************)
(* The receipt-processor Lambda: ReceiptHandler.Handle, parseRequest,      *)
(* ReceiptService.ProcessReceipt, SheetsService.AddReceiptToSpreadsheet.   *)
(* A request is [method, contentType, body]; its body is what the parsers  *)
(* make of it: kind "json" with the UploadRequest it decodes to (or none), *)
(* kind "multipart" with its parts.  handler holds the invocation: the     *)
(* services of the handler, where it is (pc), the parsed file, the calls   *)
(* made and the response.                                                  *)
(***************************************************************************)
\* strings.HasPrefix(requestContentType, "multipart/form-data")
IsMultipart(contentType) ==
    contentType \in {"multipart/form-data", "multipart/form-data; boundary=xyz"}

\* What the parsers return: fileName, fileContent, contentType, err.
Parsed(fileName, fileContent, contentType, e) ==
    [fileName |-> fileName, fileContent |-> fileContent, contentType |-> contentType,
     err |-> e]

\* The part of the form the loop stops at: the first part that cannot be
\* read or is the field "file"; 0 when the parts end before.
StopPart(parts) ==
    LET stops == {i \in 1..Len(parts) : parts[i].bad \/ parts[i].formName = "file"}
    IN  IF stops = {} THEN 0 ELSE CHOOSE i \in stops : \A j \in stops : i <= j

parseMultipartRequest(body, contentType) ==
    IF contentType # "multipart/form-data; boundary=xyz"
      THEN Parsed("", Bytes(<<>>), "", <<"boundary not found in content type">>)
    ELSE IF body.kind # "multipart"
      THEN Parsed("", Bytes(<<>>), "", <<"failed to read part: ", "multipart: NextPart: EOF">>)
    ELSE LET i == StopPart(body.parts)
         IN  IF i # 0 /\ body.parts[i].bad
               THEN Parsed("", Bytes(<<>>), "", <<"failed to read part: ", "malformed MIME header">>)
             ELSE IF i = 0 \/ body.parts[i].fileName = ""
               THEN Parsed("", Bytes(<<>>), "",
                           <<"no file found in request (looking for 'file' field)">>)
             ELSE Parsed(body.parts[i].fileName, body.parts[i].content,
                         body.parts[i].contentType, <<>>)

\* parseRequest.  A request without file name or content returns the nil err
\* of the function's result.
parseRequest(request) ==
    IF IsMultipart(request.contentType)
      THEN parseMultipartRequest(request.body, request.contentType)
    ELSE IF request.body.kind # "json" \/ request.body.uploadReq = <<>>
      THEN Parsed("", Bytes(<<>>), "", <<"invalid character 'x' looking for beginning of value">>)
    ELSE LET uploadReq == request.body.uploadReq[1]
             decoded == DecodeString(Prefix(uploadReq.FileContent, StrLen(uploadReq.FileContent)))
         IN  IF uploadReq.FileName = "" \/ StrLen(uploadReq.FileContent) = 0
               THEN Parsed("", Bytes(<<>>), "", <<>>)
             ELSE IF ~decoded.ok
               THEN Parsed("", Bytes(<<>>), "", <<"illegal base64 data">>)
             ELSE Parsed(uploadReq.FileName, Bytes(decoded.out),
                         IF uploadReq.ContentType = "" THEN "application/octet-stream"
                                                       ELSE uploadReq.ContentType,
                         <<>>)

\* The UploadResponse and the status of an answer (nil pointers are <<>>).
UploadResponse(statusCode, success, message, fileInfo, receiptData, errorDetail) ==
    [StatusCode |-> statusCode, Success |-> success, Message |-> message,
     FileInfo |-> fileInfo, ReceiptData |-> receiptData, Error |-> errorDetail]

errorResponse(statusCode, message, errorDetail) ==
    UploadResponse(statusCode, FALSE, message, <<>>, <<>>, errorDetail)

\* The answer to a CORS preflight: no body.
PreflightResponse == UploadResponse(200, FALSE, <<>>, <<>>, <<>>, <<>>)

isImageFile(contentType) ==
    contentType \in {"image/jpeg", "image/jpg", "image/png", "image/gif", "image/webp",
                     "image/bmp"}

\* ProcessResult
ProcessResult(fileInfo, receiptData) == [FileInfo |-> fileInfo, ReceiptData |-> receiptData]

\* ProcessReceiptFromBase64, from the return of ExtractReceiptDataFromBase64
\* on: [data, err].
ProcessReceiptFromBase64_Return(response, e) ==
    IF e # <<>> THEN [data |-> <<>>, err |-> <<"failed to extract receipt: ">> \o e]
    ELSE IF ~response.Success
      THEN [data |-> <<>>, err |-> <<"extraction failed: ">> \o response.Error]
    ELSE [data |-> response.Data, err |-> <<>>]

\* The ReceiptData of the extraction with the fields it leaves out.
FullReceiptData(d) ==
    ReceiptDataOf([store_name |-> d.StoreName, receipt_date |-> ZeroTime,
                   total_amount |-> d.TotalAmount * 100, currency |-> d.Currency,
                   items |-> <<>>, tax_amount |-> 0, subtotal_amount |-> 0,
                   payment_method |-> "", expense_category |-> ""])

\* Mutant: the failure of the spreadsheet fails the request.
Handle_Respond_SheetsErrorPropagated(result, sheetsErr) ==
    IF sheetsErr # <<>>
      THEN errorResponse(500, <<"Failed to process receipt">>, sheetsErr)
      ELSE UploadResponse(200, TRUE,
                          IF result.ReceiptData # <<>>
                            THEN <<"File uploaded and receipt processed successfully">>
                            ELSE <<"File uploaded successfully">>,
                          result.FileInfo, result.ReceiptData, <<>>)

\* Handle from the success response on; sheetsErr is what
\* AddReceiptToSpreadsheet returned, if it was called.
Handle_Respond(result, sheetsErr) ==
    UploadResponse(200, TRUE,
                   IF result.ReceiptData # <<>>
                     THEN <<"File uploaded and receipt processed successfully">>
                     ELSE <<"File uploaded successfully">>,
                   result.FileInfo, result.ReceiptData, <<>>)

\* Mutant: a row is written for every upload.
SheetsWanted_EveryUpload(h, result) == h.sheets # "nil"

\* h.sheetsService != nil && result.ReceiptData != nil
SheetsWanted(h, result) == h.sheets # "nil" /\ result.ReceiptData # <<>>

\* Handle once ProcessReceipt has returned result: up to the response, or to
\* the call of AppendRow.
Handle_Processed(h, result) ==
    IF ~SheetsWanted(h, result)
      THEN [h EXCEPT !.pc = "done", !.result = <<result>>,
                     !.response = <<Handle_Respond(result, <<>>)>>]
    ELSE IF h.sheets = "norepo"
      THEN [h EXCEPT !.pc = "done", !.result = <<result>>,
                     !.sheetsErr = <<"sheets repository not initialized">>,
                     !.response = <<Handle_Respond(result, <<"sheets repository not initialized">>)>>]
    ELSE [h EXCEPT !.pc = "append", !.result = <<result>>, !.appends = @ + 1,
                   !.row = formatReceiptRow(IF result.ReceiptData = <<>> THEN <<>>
                                            ELSE <<FullReceiptData(result.ReceiptData[1])>>,
                                            result.FileInfo[1].URL, "")]

\* Mutant: the failure of the extraction is returned as the error of
\* ProcessReceipt.
ProcessReceipt_Return_ExtractionErrorReturned(fileInfo, r) ==
    IF r.err # <<>> THEN [result |-> <<>>, err |-> r.err]
                    ELSE [result |-> <<ProcessResult(fileInfo, r.data)>>, err |-> <<>>]

\* ProcessReceipt after the upload: what it returns, [result, err], when the
\* extraction returned r = [data, err] (no extraction: [<<>>, <<>>]).
ProcessReceipt_Return(fileInfo, r) ==
    [result |-> <<ProcessResult(fileInfo, IF r.err = <<>> THEN r.data ELSE <<>>)>>,
     err |-> <<>>]

\* Handle once ProcessReceipt has returned ret = [result, err].
Handle_Returned(h, returned) ==
    IF returned.err # <<>>
      THEN [h EXCEPT !.pc = "done", !.processErr = returned.err,
                     !.response = <<errorResponse(500, <<"Failed to process receipt">>, returned.err)>>]
      ELSE Handle_Processed(h, returned.result[1])

\* Mutant: the image is sent whatever the validation says.
ExtractionWanted_Unvalidated(h, file) == h.openai /\ isImageFile(file.contentType)

\* ProcessReceipt: the service is there, the file is an image and passes
\* ValidateImageForOpenAI.
ExtractionWanted(h, file) ==
    /\ h.openai
    /\ isImageFile(file.contentType)
    /\ ValidateImageForOpenAI(file.fileContent) = NilError

\* The FileInfo of an upload: the names and the key hold the date, the time
\* and a random suffix.
FileInfoOf(file, key) ==
    [OriginalName |-> file.fileName, Key |-> key, Size |-> BufLen(file.fileContent),
     ContentType |-> file.contentType,
     URL |-> <<"https://", "lambda-file-uploads", ".s3.", "ap-northeast-1", ".amazonaws.com/", key>>]

(***************************************************************************)
(* The receipt-processor Lambda: inputs, initial state and steps.  The     *)
(* extraction service is used directly (as in the steps of the extraction  *)
(* service above) or by the handler.                                       *)
(***************************************************************************)
\* A small PNG, a BMP, no content, a PNG over the size limit.
FileInputs ==
    { [head |-> PNGFile, fill |-> 3], [head |-> BMPFile, fill |-> 0], Bytes(<<>>),
      [head |-> PNGFile, fill |-> MaxImageSizeBytes] }

JSONBodyInputs ==
    { [kind |-> "json", uploadReq |-> <<>>] }
    \cup { [kind |-> "json",
            uploadReq |-> <<[FileName |-> n, FileContent |-> c, ContentType |-> t]>>] :
             n \in {"", "receipt.png"},
             c \in {Str(<<>>), Str(<<"!", "!">>),
                    EncodeImageToBase64([head |-> PNGFile, fill |-> 3]),
                    EncodeImageToBase64([head |-> BMPFile, fill |-> 0])},
             t \in {"", "image/png"} }

MemoPart ==
    [bad |-> FALSE, formName |-> "memo", fileName |-> "", contentType |-> "",
     content |-> Bytes(<<108, 117, 110, 99, 104>>)]

MultipartBodyInputs ==
    { [kind |-> "multipart", parts |-> <<>>],
      [kind |-> "multipart", parts |-> <<MemoPart>>],
      [kind |-> "multipart", parts |-> <<MemoPart, [MemoPart EXCEPT !.bad = TRUE]>>] }
    \cup { [kind |-> "multipart",
            parts |-> <<MemoPart, [bad |-> FALSE, formName |-> "file", fileName |-> n,
                                   contentType |-> t, content |-> c]>>] :
             n \in {"", "receipt.png"}, t \in {"", "image/png", "image/bmp"},
             c \in FileInputs }

RequestsToHandle ==
    { [method |-> m, contentType |-> t, body |-> b] :
        m \in {"OPTIONS", "GET", "POST"},
        t \in {"application/json", "multipart/form-data", "multipart/form-data; boundary=xyz"},
        b \in JSONBodyInputs \cup MultipartBodyInputs }

\* The configuration init() gives the service.
LambdaConfig ==
    [APIKey |-> "test-key", DefaultCurrency |-> "JPY", DefaultLanguage |-> "ja",
     DefaultTimezone |-> "Asia/Tokyo", VisionModel |-> "gpt-4o", CompletionModel |-> "",
     MaxTokens |-> 4096, Temperature |-> 100]

NoFile == Parsed("", Bytes(<<>>), "", <<>>)

InitHandle ==
    /\ ValidationOff
    /\ ConfigOff
    /\ RecordsOff
    /\ sheet = <<HeaderRow>>
    /\ ctx = ""
    /\ entry = ""
    /\ req = ZeroRequest
    /\ sent = NothingSent
    /\ requests = 0
    /\ received = NothingReceived
    /\ resp = ZeroResponse
    /\ err = <<>>
    /\ \E request \in RequestsToHandle, openai \in BOOLEAN, sheets \in {"nil", "norepo", "repo"} :
          /\ svc = IF openai THEN NewService(LambdaConfig, "").service[1]
                             ELSE [config |-> ZeroConfig, apiKey |-> ""]
          /\ pc = IF openai THEN "idle" ELSE "off"
          /\ handler = [fn |-> "Handle", request |-> request, openai |-> openai,
                        sheets |-> sheets, pc |-> "start", file |-> NoFile, uploads |-> 0,
                        appends |-> 0, row |-> <<>>, uploadErr |-> <<>>, result |-> <<>>,
                        extractErr |-> <<>>, processErr |-> <<>>, sheetsErr |-> <<>>,
                        response |-> <<>>]

(***************************************************************************)
(* The receipt-go Lambda: Handler, with the uploader, the extraction       *)
(* service and the sheets repository it calls.                             *)
(***************************************************************************)
s3BucketName == "vibe-receipt-uploads-kyra"

\* A value of the map json.Unmarshal fills: a string, or a number (value is
\* then its literal).
JSONString(v) == [type |-> "string", value |-> v]

JSONNumber(v) == [type |-> "number", value |-> v]

\* requestBody[key].(string): [value, ok]; the key is absent (<<>>) or holds
\* one value.
StringOf(member) ==
    IF member # <<>> /\ member[1].type = "string"
      THEN [value |-> member[1].value, ok |-> TRUE]
      ELSE [value |-> <<>>, ok |-> FALSE]

\* ErrorResponse and ReceiptResponse in the LambdaFunctionURLResponse (the
\* timestamp is left out).
ErrorResponse(statusCode, message) ==
    [StatusCode |-> statusCode, Body |-> [Error |-> message]]

ReceiptResponse(fileName, fileSize, s3Key) ==
    [StatusCode |-> 200,
     Body |-> [FileName |-> fileName, FileSize |-> fileSize, S3Key |-> s3Key,
               S3Bucket |-> s3BucketName]]

\* Handler returns response and a nil error.
Handler_Return(h, response) == [h EXCEPT !.pc = "done", !.response = <<response>>]

\* Mutant: the error of the upload is returned as the error of Handler.
Handler_UploadFailed_ErrorReturned(h, e) ==
    [h EXCEPT !.pc = "done", !.uploadErr = e, !.goErr = e]

\* Handler when uploader.Upload returned the error e.
Handler_UploadFailed(h, e) ==
    Handler_Return([h EXCEPT !.uploadErr = e],
                   ErrorResponse(500, <<"Failed to upload file to S3: ">> \o e))

\* Handler from the success response on.
Handler_Respond(h) ==
    Handler_Return(h, ReceiptResponse(h.fileName, BufLen(h.decodedFile), h.s3Key))

\* formatItemDetails for items without quantity and price.
formatItemDetails(items) ==
    [i \in 1..Len(items) |-> <<items[i].Name, " x $", "0.00">>] \o <<>>

\* convertToSheetRow for a record without transaction date and payment
\* method: the date is today's, the total and the count are texts.
convertToSheetRow(data, s3URL) ==
    [Date |-> "2024-01-15", Category |-> "", MerchantName |-> data.MerchantName,
     Total |-> <<"%.2f", data.Total>>, ItemCount |-> <<"%d", Len(data.Items)>>,
     ItemDetails |-> formatItemDetails(data.Items), PaymentMethod |-> "Unknown",
     ReceiptLink |-> s3URL, Memo |-> ""]

\* Handler once ExtractFromImage has returned [Success, Data] and e: up to the
\* response or to the call of SaveReceipt.
Handler_Extracted(h, extractionResp, e) ==
    IF e # <<>> THEN Handler_Respond([h EXCEPT !.extractErr = e])
    ELSE IF ~extractionResp.Success THEN Handler_Respond(h)
    ELSE LET g == [h EXCEPT !.receiptData = extractionResp.Data]
         IN  IF h.sheets /\ extractionResp.Data # <<>>
               THEN [g EXCEPT !.pc = "save", !.saves = @ + 1,
                              !.row = <<convertToSheetRow(extractionResp.Data[1],
                                          <<"https://", s3BucketName, ".s3.amazonaws.com/">>
                                          \o h.s3Key)>>]
               ELSE Handler_Respond(g)

\* The bodies of the requests: not JSON, or an object with the keys "file"
\* and "fileName" absent or holding a number or a string.
HandlerBodyInputs ==
    { [kind |-> "text", file |-> <<>>, fileName |-> <<>>] }
    \cup { [kind |-> "object", file |-> f, fileName |-> n] :
             f \in { <<>>, <<JSONNumber(Str(<<"1", "2", "3">>))>>, <<JSONString(Str(<<>>))>>,
                     <<JSONString(Str(<<"!", "!">>))>>,
                     <<JSONString(EncodeImageToBase64([head |-> PNGFile, fill |-> 3]))>>,
                     <<JSONString(EncodeImageToBase64(Bytes(<<84, 101, 115, 116>>)))>> },
             n \in { <<>>, <<JSONNumber("7")>>, <<JSONString("")>>,
                     <<JSONString("receipt.jpg")>> } }

HandlerRequests ==
    { [method |-> m, body |-> b] : m \in {"GET", "POST"}, b \in HandlerBodyInputs }

\* What the OpenAI client of receipt-go extracts.
ExtractedRecords ==
    { ReceiptGoDataOf(doc) :
        doc \in { d \in ReceiptGoDocuments : d.subtotal = 1000 /\ d.tax \in {0, 200}
                                              /\ d.total \in {0, 1200} } }

\* initServices: the extraction service and the sheets repository are there
\* or not.
InitHandler ==
    /\ ValidationOff
    /\ ConfigOff
    /\ RecordsOff
    /\ sheet = <<>>
    /\ svc = [config |-> ZeroConfig, apiKey |-> ""]
    /\ pc = "off"
    /\ ctx = ""
    /\ entry = ""
    /\ req = ZeroRequest
    /\ sent = NothingSent
    /\ requests = 0
    /\ received = NothingReceived
    /\ resp = ZeroResponse
    /\ err = <<>>
    /\ \E request \in HandlerRequests, extraction \in BOOLEAN, sheets \in BOOLEAN :
          handler = [fn |-> "Handler", request |-> request, extraction |-> extraction,
                     sheets |-> sheets, pc |-> "start", fileName |-> "",
                     decodedFile |-> Bytes(<<>>), s3Key |-> <<>>, uploadErr |-> <<>>,
                     extractErr |-> <<>>, receiptData |-> <<>>, saves |-> 0, row |-> <<>>,
                     saveErr |-> <<>>, response |-> <<>>, goErr |-> <<>>]

\* Handler up to an early response or to the call of uploader.Upload.
Handler_Begin ==
    /\ handler.fn = "Handler"
    /\ handler.pc = "start"
    /\ LET request == handler.request
       IN  handler' =
             IF request.method # "POST"
               THEN Handler_Return(handler,
                       ErrorResponse(405, <<"Method not allowed. Only POST is supported.">>))
             ELSE IF request.body.kind # "object"
               THEN Handler_Return(handler,
                       ErrorResponse(400, <<"Invalid request body. Expected JSON format.">>))
             ELSE LET fileData == StringOf(request.body.file)
                      name == StringOf(request.body.fileName)
                      fileName == IF name.ok /\ name.value # "" THEN name.value ELSE "unknown"
                  IN  IF ~fileData.ok \/ StrLen(fileData.value) = 0
                        THEN Handler_Return(handler,
                                ErrorResponse(400,
                                   <<"Missing or invalid 'file' field in request body.">>))
                      ELSE LET decoded == DecodeString(Prefix(fileData.value,
                                                              StrLen(fileData.value)))
                           IN  IF ~decoded.ok
                                 THEN Handler_Return(handler,
                                         ErrorResponse(400,
                                            <<"Failed to decode file data. Expected base64 encoded string.">>))
                                 ELSE [handler EXCEPT !.pc = "upload", !.fileName = fileName,
                                                      !.decodedFile = Bytes(decoded.out)]
    /\ UNCHANGED sheet
    /\ UNCHANGED <<valVars, extVars, cfgVars, recVars>>

\* RealS3Uploader.Upload fails: no session, or PutObject fails.
S3UploadFails ==
    /\ handler.fn = "Handler"
    /\ handler.pc = "upload"
    /\ \E e \in { <<"failed to create AWS session: ", "no credentials">>,
                  <<"failed to upload to S3: ", "timeout">> } :
          handler' = Handler_UploadFailed(handler, e)
    /\ UNCHANGED sheet
    /\ UNCHANGED <<valVars, extVars, cfgVars, recVars>>

\* RealS3Uploader.Upload succeeds: the key is the date folder and the name
\* with a random suffix.  Handler goes on to the extraction, if the service
\* is there; ExtractFromImage refuses an empty image itself.
S3UploadSucceeds ==
    /\ handler.fn = "Handler"
    /\ handler.pc = "upload"
    /\ LET h == [handler EXCEPT !.s3Key = <<"2024-01-15", "/", handler.fileName, "_deadbeef">>]
       IN  handler' =
             IF ~h.extraction THEN Handler_Respond(h)
             ELSE IF BufLen(h.decodedFile) = 0
               THEN Handler_Extracted(h, [Success |-> FALSE, Data |-> <<>>],
                                      <<"image data is empty">>)
             ELSE [h EXCEPT !.pc = "extract"]
    /\ UNCHANGED sheet
    /\ UNCHANGED <<valVars, extVars, cfgVars, recVars>>

\* The OpenAI client returns an error: ExtractFromImage returns it.
OpenAIClientFails ==
    /\ handler.fn = "Handler"
    /\ handler.pc = "extract"
    /\ \E e \in { <<"failed to send request: ", "timeout">>, <<"no choices in response">> } :
          handler' = Handler_Extracted(handler, [Success |-> FALSE, Data |-> <<>>], e)
    /\ UNCHANGED sheet
    /\ UNCHANGED <<valVars, extVars, cfgVars, recVars>>

\* The OpenAI client returns a record.
OpenAIClientReturns ==
    /\ handler.fn = "Handler"
    /\ handler.pc = "extract"
    /\ \E data \in ExtractedRecords :
          handler' = Handler_Extracted(handler, [Success |-> TRUE, Data |-> <<data>>], <<>>)
    /\ UNCHANGED sheet
    /\ UNCHANGED <<valVars, extVars, cfgVars, recVars>>

SaveReceiptSucceeds ==
    /\ handler.fn = "Handler"
    /\ handler.pc = "save"
    /\ sheet' = Append(sheet, handler.row[1])
    /\ handler' = Handler_Respond(handler)
    /\ UNCHANGED <<valVars, extVars, cfgVars, recVars>>

SaveReceiptFails ==
    /\ handler.fn = "Handler"
    /\ handler.pc = "save"
    /\ handler' = Handler_Respond([handler EXCEPT
                     !.saveErr = <<"failed to append to Google Sheets: ", "quota exceeded">>])
    /\ UNCHANGED sheet
    /\ UNCHANGED <<valVars, extVars, cfgVars, recVars>>


InitPipeline == InitExtract \/ InitHandle \/ InitHandler

\* The extraction service is called directly.
DirectUse ==
    /\ handler.fn = ""
    /\ \/ CallExtractReceiptData
       \/ CallExtractReceiptDataFromBase64
       \/ CallExtractReceiptDataFromURL

\* Handle up to an early response or to the call of S3Repository.Upload.
Handle_Begin ==
    /\ handler.fn = "Handle"
    /\ handler.pc = "start"
    /\ LET request == handler.request
           file == parseRequest(request)
           answer(response) == [handler EXCEPT !.pc = "done", !.response = <<response>>]
       IN  handler' =
             IF request.method = "OPTIONS" THEN answer(PreflightResponse)
             ELSE IF request.method # "POST"
               THEN answer(errorResponse(405, <<"Method not allowed. Only POST is supported.">>,
                                         <<"Invalid HTTP method">>))
             ELSE IF file.err # <<>>
               THEN answer(errorResponse(400, file.err, <<"Failed to parse request">>))
             ELSE IF BufLen(file.fileContent) = 0
               THEN answer(errorResponse(400, <<"File content is empty">>, <<"Validation error">>))
             ELSE [handler EXCEPT !.pc = "upload", !.file = file]
    /\ UNCHANGED sheet
    /\ UNCHANGED <<valVars, extVars, cfgVars, recVars>>

\* Upload fails (the bucket, the PutObject): ProcessReceipt returns the error
\* and Handle answers 500.
UploadFails ==
    /\ handler.fn = "Handle"
    /\ handler.pc = "upload"
    /\ \E e \in { <<"failed to ensure bucket exists: ", "access denied">>,
                  <<"failed to upload file to S3: ", "timeout">> } :
          handler' = Handle_Returned([handler EXCEPT !.uploads = @ + 1, !.uploadErr = e],
                                     [result |-> <<>>, err |-> e])
    /\ UNCHANGED sheet
    /\ UNCHANGED <<valVars, extVars, cfgVars, recVars>>

\* Upload succeeds: ProcessReceipt goes on to the call of the extraction, or
\* returns and Handle goes on.
UploadSucceeds ==
    /\ handler.fn = "Handle"
    /\ handler.pc = "upload"
    /\ LET file == handler.file
           fileInfo == FileInfoOf(file, "2024-01-15/receipt_20240115_093000_deadbeef.png")
           h == [handler EXCEPT !.uploads = @ + 1]
       IN  IF ExtractionWanted(h, file)
             THEN /\ handler' = [h EXCEPT !.pc = "extract",
                                          !.result = <<ProcessResult(<<fileInfo>>, <<>>)>>]
                  /\ ExtractReceiptData_Begin("ExtractReceiptDataFromBase64",
                        [ZeroRequest EXCEPT !.ImageData = EncodeImageToBase64(file.fileContent)])
                  /\ UNCHANGED sheet
             ELSE /\ handler' = Handle_Returned(h, ProcessReceipt_Return(<<fileInfo>>,
                                                     [data |-> <<>>, err |-> <<>>]))
                  /\ UNCHANGED sheet
                  /\ UNCHANGED <<valVars, extVars, cfgVars, recVars>>

\* The extraction has returned: ProcessReceipt returns and Handle goes on.
ProcessReceipt_Extracted ==
    /\ handler.fn = "Handle"
    /\ handler.pc = "extract"
    /\ pc = "done"
    /\ LET r == ProcessReceiptFromBase64_Return(resp, err)
       IN  handler' = Handle_Returned([handler EXCEPT !.extractErr = r.err],
                                      ProcessReceipt_Return(handler.result[1].FileInfo, r))
    /\ UNCHANGED sheet
    /\ UNCHANGED <<valVars, extVars, cfgVars, recVars>>

AppendRowSucceeds ==
    /\ handler.fn = "Handle"
    /\ handler.pc = "append"
    /\ sheet' = Append(sheet, handler.row)
    /\ handler' = [handler EXCEPT !.pc = "done",
                     !.response = <<Handle_Respond(handler.result[1], <<>>)>>]
    /\ UNCHANGED <<valVars, extVars, cfgVars, recVars>>

AppendRowFails ==
    /\ handler.fn = "Handle"
    /\ handler.pc = "append"
    /\ LET e == <<"failed to add receipt to spreadsheet: ", "failed to append row: ", "timeout">>
       IN  handler' = [handler EXCEPT !.pc = "done", !.sheetsErr = e,
                         !.response = <<Handle_Respond(handler.result[1], e)>>]
    /\ UNCHANGED sheet
    /\ UNCHANGED <<valVars, extVars, cfgVars, recVars>>

NextPipeline ==
    \/ DirectUse
    \/ ContextDone
    \/ ClientDoFails
    \/ ReadBodyFails
    \/ EndpointResponds
    \/ Handle_Begin
    \/ UploadFails
    \/ UploadSucceeds
    \/ ProcessReceipt_Extracted
    \/ AppendRowSucceeds
    \/ AppendRowFails
    \/ Handler_Begin
    \/ S3UploadFails
    \/ S3UploadSucceeds
    \/ OpenAIClientFails
    \/ OpenAIClientReturns
    \/ SaveReceiptSucceeds
    \/ SaveReceiptFails

SpecPipeline == InitPipeline /\ [][NextPipeline]_vars

TypeOfHandle ==
    handler.fn = "Handle" =>
        /\ handler.pc \in {"start", "upload", "extract", "append", "done"}
        /\ handler.pc = "done" <=> handler.response # <<>>

(***************************************************************************)
(* Properties of the receipt-processor handler.                            *)
(***************************************************************************)
\* The request has been answered with the given status.
Answered(status) ==
    /\ handler.pc = "done"
    /\ handler.response # <<>>
    /\ handler.response[1].StatusCode = status

\* C26: ExtractReceiptData called with neither image data nor an image URL
\* fails without any outbound request, and ProcessReceipt never calls the
\* vision endpoint for content that fails ValidateImageForOpenAI.
C26_NoRequestWithoutValidImage ==
    /\ (entry # "" /\ StrLen(req.ImageData) = 0 /\ StrLen(req.ImageURL) = 0) =>
          /\ pc = "done"
          /\ requests = 0
          /\ sent = NothingSent
          /\ err # <<>>
          /\ ~resp.Success
    /\ (handler.fn = "Handle" /\ handler.uploads = 1
          /\ ValidateImageForOpenAI(handler.file.fileContent) # NilError) =>
          /\ entry = ""
          /\ requests = 0
          /\ sent = NothingSent

\* An image type whose content fails the validation was uploaded, with the
\* extraction service there, and the request was answered.
C26_Witness ==
    /\ handler.fn = "Handle"
    /\ Answered(200)
    /\ handler.openai
    /\ isImageFile(handler.file.contentType)
    /\ ValidateImageForOpenAI(handler.file.fileContent) # NilError
    /\ requests = 0

\* ExtractReceiptData was called directly with an empty request.
EmptyRequestRefused ==
    /\ handler.fn = ""
    /\ entry = "ExtractReceiptData"
    /\ StrLen(req.ImageData) = 0
    /\ StrLen(req.ImageURL) = 0
    /\ pc = "done"

\* C27: Handle appends a row at most once per request, and only after the
\* upload succeeded and the extraction produced a record, with the sheets
\* service configured; OPTIONS, non-POST, 400 and 500 answers append nothing.
C27_RowAppendedAtMostOnce ==
    handler.fn = "Handle" =>
        /\ handler.appends <= 1
        /\ Len(sheet) <= 2
        /\ Len(sheet) = 2 => handler.appends = 1
        /\ handler.appends > 0 =>
              /\ handler.request.method = "POST"
              /\ handler.uploads = 1
              /\ handler.uploadErr = <<>>
              /\ handler.sheets # "nil"
              /\ handler.result # <<>>
              /\ handler.result[1].ReceiptData # <<>>
        /\ (handler.response # <<>>
               /\ (handler.request.method # "POST"
                     \/ handler.response[1].StatusCode \in {400, 405, 500})) =>
              /\ handler.appends = 0
              /\ sheet = <<HeaderRow>>

\* A row was appended and the request answered.
C27_Witness ==
    /\ handler.fn = "Handle"
    /\ Answered(200)
    /\ handler.appends = 1
    /\ Len(sheet) = 2
    /\ sheet[2] = handler.row

\* ProcessReceipt has returned to Handle.
ProcessReceiptReturned ==
    handler.fn = "Handle" /\ handler.uploads = 1 /\ handler.pc \in {"append", "done"}

\* C29: ProcessReceipt returns an error exactly when the upload fails; the
\* failures after the upload are absorbed and leave ReceiptData nil;
\* ReceiptData is non-nil only if the validation passed and the extraction
\* succeeded.
C29_ErrorIffUploadFails ==
    ProcessReceiptReturned =>
        /\ handler.processErr # <<>> <=> handler.uploadErr # <<>>
        /\ handler.processErr = <<>> <=> handler.result # <<>>
        /\ handler.result # <<>> =>
              /\ handler.extractErr # <<>> => handler.result[1].ReceiptData = <<>>
              /\ ValidateImageForOpenAI(handler.file.fileContent) # NilError =>
                    handler.result[1].ReceiptData = <<>>
              /\ handler.result[1].ReceiptData # <<>> =>
                    /\ handler.openai
                    /\ isImageFile(handler.file.contentType)
                    /\ ValidateImageForOpenAI(handler.file.fileContent) = NilError
                    /\ requests > 0
                    /\ err = <<>>
                    /\ resp.Success
                    /\ handler.result[1].ReceiptData = resp.Data

\* The extraction failed after the upload and the request was answered 200.
C29_Witness ==
    /\ ProcessReceiptReturned
    /\ Answered(200)
    /\ handler.extractErr # <<>>
    /\ handler.processErr = <<>>
    /\ handler.result[1].ReceiptData = <<>>

\* The upload failed and ProcessReceipt returned its error.
UploadErrorReturned ==
    /\ ProcessReceiptReturned
    /\ Answered(500)
    /\ handler.processErr = handler.uploadErr
    /\ handler.uploadErr # <<>>

\* The extraction succeeded and its record is in the result.
RecordExtracted ==
    /\ ProcessReceiptReturned
    /\ handler.result # <<>>
    /\ handler.result[1].ReceiptData # <<>>

(***************************************************************************)
(* Properties of the handlers of both Lambdas.                             *)
(***************************************************************************)
\* C24: a failure to write the spreadsheet row is not propagated: once the
\* upload succeeded, the response of the handler (status 200, success flag,
\* file info, receipt data) is determined by the result of the upload and of
\* the extraction alone, whether the append succeeded, failed or was not
\* made; this holds for Handle and for the receipt-go Handler.
C24_SheetsFailureNotPropagated ==
    /\ (handler.fn = "Handle" /\ handler.pc = "done" /\ handler.result # <<>>) =>
          LET result == handler.result[1]
          IN  /\ handler.processErr = <<>>
              /\ handler.response =
                   << [StatusCode |-> 200, Success |-> TRUE,
                       Message |-> IF result.ReceiptData # <<>>
                                     THEN <<"File uploaded and receipt processed successfully">>
                                     ELSE <<"File uploaded successfully">>,
                       FileInfo |-> result.FileInfo, ReceiptData |-> result.ReceiptData,
                       Error |-> <<>>] >>
    /\ (handler.fn = "Handler" /\ handler.pc = "done" /\ handler.s3Key # <<>>) =>
          /\ handler.goErr = <<>>
          /\ handler.response =
               << [StatusCode |-> 200,
                   Body |-> [FileName |-> handler.fileName,
                             FileSize |-> BufLen(handler.decodedFile),
                             S3Key |-> handler.s3Key, S3Bucket |-> s3BucketName]] >>

\* Handle extracted a record, the append failed, and the answer is 200.
C24_Witness ==
    /\ handler.fn = "Handle"
    /\ Answered(200)
    /\ handler.appends = 1
    /\ handler.sheetsErr # <<>>
    /\ handler.result[1].ReceiptData # <<>>
    /\ sheet = <<HeaderRow>>

\* The same request answered after the append succeeded.
AppendSucceededAnswered ==
    /\ handler.fn = "Handle"
    /\ Answered(200)
    /\ handler.appends = 1
    /\ handler.sheetsErr = <<>>
    /\ Len(sheet) = 2

\* The receipt-go Handler answered 200 after SaveReceipt failed.
SaveFailedAnswered ==
    /\ handler.fn = "Handler"
    /\ Answered(200)
    /\ handler.saves = 1
    /\ handler.saveErr # <<>>
    /\ handler.receiptData # <<>>
    /\ sheet = <<>>

\* The status the receipt-go Handler owes a request, given whether the upload
\* failed.
StatusOwed(request, uploadFailed) ==
    IF request.method # "POST" THEN 405
    ELSE IF request.body.kind # "object" THEN 400
    ELSE IF request.body.file = <<>> THEN 400
    ELSE IF request.body.file[1].type # "string" THEN 400
    ELSE IF StrLen(request.body.file[1].value) = 0 THEN 400
    ELSE IF ~DecodeString(Prefix(request.body.file[1].value,
                                 StrLen(request.body.file[1].value))).ok THEN 400
    ELSE IF uploadFailed THEN 500
    ELSE 200

\* C25: the receipt-go Handler never returns a non-nil error; every request
\* gets one status: 405 for a method other than POST, 400 for a body that is
\* not JSON, for a missing or empty 'file' (or one that is not a string) and
\* for invalid base64, 500 when the upload fails, else 200 with fileSize the
\* decoded length, fileName 'unknown' when absent, and a non-empty s3Key.
C25_OneStatusPerRequest ==
    handler.fn = "Handler" =>
        /\ handler.goErr = <<>>
        /\ handler.pc = "done" <=> handler.response # <<>>
        /\ handler.pc = "done" =>
              LET request == handler.request
                  response == handler.response[1]
              IN  /\ Len(handler.response) = 1
                  /\ response.StatusCode = StatusOwed(request, handler.uploadErr # <<>>)
                  /\ response.StatusCode = 200 =>
                        LET file == request.body.file[1].value
                            decoded == DecodeString(Prefix(file, StrLen(file)))
                            name == request.body.fileName
                        IN  /\ response.Body.FileSize = Len(decoded.out)
                            /\ response.Body.FileName =
                                 IF name # <<>> /\ name[1].type = "string" /\ name[1].value # ""
                                   THEN name[1].value ELSE "unknown"
                            /\ response.Body.S3Key # <<>>
                            /\ response.Body.S3Bucket = s3BucketName

\* A file sent without a name was uploaded and answered 200 as 'unknown'.
C25_Witness ==
    /\ handler.fn = "Handler"
    /\ Answered(200)
    /\ handler.request.body.fileName = <<>>
    /\ handler.response[1].Body.FileName = "unknown"
    /\ handler.response[1].Body.FileSize > 0

\* The receipt-go Handler answered with the given status.
HandlerAnswered(status) == handler.fn = "Handler" /\ Answered(status)

HandlerAnswered405 == HandlerAnswered(405)

HandlerAnswered400 == HandlerAnswered(400)

HandlerAnswered500 == HandlerAnswered(500)

====
